---- MODULE Spec2Model ----
(***************************************************************************)
(* GreyEngine: a model of the ECS World (src/src/ecs/mod.rs).              *)
(*                                                                         *)
(* The World is four fields: the fresh-id counter, the live list, the      *)
(* free-list and the map from a component type id to its type-erased       *)
(* storage.  Every public method of World is one action; the read-only     *)
(* methods are operators over the state as well.                           *)
(***************************************************************************)
EXTENDS Integers, Sequences, FiniteSets, TLC

\* Entity ids the model allocates: spawn hands out fresh ids 0 .. MaxEntities-1.
\* Callers may pass any id of that range to any method, allocated or not
\* (Entity's field is public, so an Entity can be forged).
MaxEntities == 2

EntityIds == 0 .. (MaxEntities - 1)

\* Component types used as T (two of the structs of ecs/mod.rs), standing for
\* their TypeId.
ComponentTypes == {"Transform2D", "Sprite"}

\* Component values: two distinct values of a type tell a replaced component
\* from the one that replaced it.
Values == {"c1", "c2"}

\* Option::None of get / get_mut.
None == "None"

\* Placeholders of lastOp's fields for a method without that argument.
NoEntity == 0 - 1
NoType == "-"
NoValue == "-"

VARIABLES
    next_entity_id,   \* World.next_entity_id
    entities,         \* World.entities: Vec<Entity>, the live list
    dead_entities,    \* World.dead_entities: Vec<Entity>, the free-list
    components,       \* World.components: TypeId -> Box<dyn ComponentStorage>
    addCalled,        \* history: the types T for which add<T> has been called
    lastOp            \* history: the last method called, its arguments and result

worldVars == <<next_entity_id, entities, dead_entities, components>>
vars == <<next_entity_id, entities, dead_entities, components, addCalled, lastOp>>

\* The batched 2D renderer (Renderer2D): its batch, and as history
\* quadCalls (draw_quad / draw_sprite invocations since begin, counted up to
\* BatchCap + 2), glyphCalls (draw_text / draw_number calls since begin,
\* counted up to MaxGlyphCalls) and lastCall (the last method called, its
\* arguments, its result and the GPU commands it issued).
VARIABLE renderer

vertices == renderer.vertices       \* Renderer2D.vertices: Vec<Vertex2D>
quad_count == renderer.quad_count   \* Renderer2D.quad_count
quadCalls == renderer.quadCalls
glyphCalls == renderer.glyphCalls
lastCall == renderer.lastCall

rendererVars == <<renderer>>

\* The input state (Input): its fields, and as history lastInput (the last
\* method called and its key or button).
VARIABLE input

keys_down == input.keys_down
keys_pressed == input.keys_pressed
keys_released == input.keys_released
mouse_buttons_down == input.mouse_buttons_down
mouse_buttons_pressed == input.mouse_buttons_pressed
mouse_buttons_released == input.mouse_buttons_released
mouse_position == input.mouse_position
mouse_delta == input.mouse_delta
scroll_delta == input.scroll_delta
prev_mouse_position == input.prev_mouse_position
lastInput == input.lastInput

inputVars == <<input>>

\* The 2D camera (Camera2D): its fields, and as history lastCamera (the last
\* method called, its argument and its result).
VARIABLE camera

lastCamera == camera.lastCamera

cameraVars == <<camera>>

\* The event loop's handler (AppRunner and the RenderState it owns, less the
\* Renderer2D): the surface configuration, whether the loop was asked to
\* exit, and as history the last event handled and the calls its handler made.
VARIABLE runner

runnerVars == <<runner>>

\* The asset manager (AssetManager): its fields, and as history issued (the
\* handles load has created) and lastAsset (the last method called, its
\* argument, its result and whether it read the file).
VARIABLE assets

lastAsset == assets.lastAsset

assetsVars == <<assets>>

\* The scene graph (SceneGraph): nodes and roots, and as history lastScene
\* (the last method called, its arguments and how it ended).
VARIABLE graph

lastScene == graph.lastScene

graphVars == <<graph>>

\* The objects that are no field of the Engine or the AppRunner.
offEngine == <<assetsVars, graphVars>>

\* An object that has not been constructed.
Absent == "absent"

\* A method of one object leaves the other objects alone.
notWorld == <<rendererVars, inputVars, cameraVars, runnerVars, offEngine>>
notRenderer == <<vars, inputVars, cameraVars, runnerVars, offEngine>>
notInput == <<vars, rendererVars, cameraVars, runnerVars, offEngine>>
notCamera == <<vars, rendererVars, inputVars, runnerVars, offEngine>>
notAssets == <<vars, rendererVars, inputVars, cameraVars, runnerVars, graphVars>>
notGraph == <<vars, rendererVars, inputVars, cameraVars, runnerVars, assetsVars>>
allVars == <<vars, rendererVars, inputVars, cameraVars, runnerVars, offEngine>>

----------------------------------------------------------------------------
\* Vec<Entity> helpers

\* Vec::contains
contains(vec, entity) == \E i \in 1 .. Len(vec) : vec[i] = entity

\* Mutant of position: position(..).unwrap_or(0), which takes the first
\* element of a non-empty list when the entity is not found.
position_OrFirst(vec, entity) ==
    IF contains(vec, entity)
    THEN CHOOSE i \in 1 .. Len(vec) :
             /\ vec[i] = entity
             /\ \A j \in 1 .. (i - 1) : vec[j] # entity
    ELSE IF vec # <<>> THEN 1 ELSE 0

\* iter().position(|&e| e == entity): the first index holding entity
\* (1-based), 0 for None.
position(vec, entity) ==
    IF contains(vec, entity)
    THEN CHOOSE i \in 1 .. Len(vec) :
             /\ vec[i] = entity
             /\ \A j \in 1 .. (i - 1) : vec[j] # entity
    ELSE 0

\* Mutant of swap_remove: pop() in place of swap_remove(pos), which removes the
\* last element whatever pos is.
swap_remove_Pop(vec, pos) == SubSeq(vec, 1, Len(vec) - 1)

\* Vec::swap_remove(pos): the last element takes the place of the removed one.
swap_remove(vec, pos) ==
    LET front == SubSeq(vec, 1, Len(vec) - 1)
    IN  IF pos = Len(vec) THEN front ELSE [front EXCEPT ![pos] = vec[Len(vec)]]

----------------------------------------------------------------------------
\* Storage<T>: the element type (what a downcast checks) and the HashMap.

\* Mutant of Storage_new: a storage of another element type boxed under T's
\* type id (Storage::<Name>::new() in place of Storage::<T>::new()).
Storage_new_WrongType(T) == [elem |-> "Name", data |-> <<>>]

Storage_new(T) == [elem |-> T, data |-> <<>>]

Storage_has(storage, entity) == entity \in DOMAIN storage.data

Storage_get(storage, entity) ==
    IF entity \in DOMAIN storage.data THEN storage.data[entity] ELSE None

\* Mutant of Storage_insert: entry(entity).or_insert(component), which keeps
\* an earlier value.
Storage_insert_KeepOld(storage, entity, component) ==
    [storage EXCEPT !.data =
        [e \in (DOMAIN storage.data) \cup {entity} |->
            IF e \in DOMAIN storage.data THEN storage.data[e] ELSE component]]

\* HashMap::insert: one entry per key, the new value replaces the old one.
Storage_insert(storage, entity, component) ==
    [storage EXCEPT !.data =
        [e \in (DOMAIN storage.data) \cup {entity} |->
            IF e = entity THEN component ELSE storage.data[e]]]

\* Mutant of Storage_remove: data.clear() in place of data.remove(&entity).
Storage_remove_Clear(storage, entity) == [storage EXCEPT !.data = <<>>]

\* HashMap::remove
Storage_remove(storage, entity) ==
    [storage EXCEPT !.data =
        [e \in (DOMAIN storage.data) \ {entity} |-> storage.data[e]]]

\* as_any().downcast_ref::<Storage<T>>(): Some only for a Storage<T>.
downcasts(storage, T) == storage.elem = T

----------------------------------------------------------------------------
\* Read-only methods of World

is_alive(entity) == contains(entities, entity)

get(T, entity) ==
    IF T \notin DOMAIN components THEN None
    ELSE IF ~downcasts(components[T], T) THEN None
    ELSE Storage_get(components[T], entity)

\* Mutant of has: unwrap_or(true) in place of unwrap_or(false).
has_DefaultTrue(T, entity) ==
    IF T \in DOMAIN components THEN Storage_has(components[T], entity) ELSE TRUE

has(T, entity) ==
    IF T \in DOMAIN components THEN Storage_has(components[T], entity) ELSE FALSE

\* The pairs QueryIter yields (HashMap iteration order is unspecified).
query(T) ==
    IF T \notin DOMAIN components THEN {}
    ELSE IF ~downcasts(components[T], T) THEN {}
    ELSE {<<e, components[T].data[e]>> : e \in DOMAIN components[T].data}

----------------------------------------------------------------------------
Op(op, e, T, v, hit, purged) ==
    [op |-> op, e |-> e, t |-> T, v |-> v, hit |-> hit, purged |-> purged]

WorldInit ==
    /\ next_entity_id = 0
    /\ entities = <<>>
    /\ dead_entities = <<>>
    /\ components = <<>>
    /\ addCalled = {}
    /\ lastOp = Op("new", NoEntity, NoType, NoValue, FALSE, 0)

\* Mutant of Spawn: the free-list used as a queue (remove(0) in place of pop()).
Spawn_Fifo ==
    /\ IF dead_entities # <<>>
       THEN /\ entities' = Append(entities, dead_entities[1])
            /\ dead_entities' = SubSeq(dead_entities, 2, Len(dead_entities))
            /\ next_entity_id' = next_entity_id
            /\ lastOp' = Op("spawn", dead_entities[1], NoType, NoValue, TRUE, 0)
       ELSE /\ next_entity_id < MaxEntities
            /\ next_entity_id' = next_entity_id + 1
            /\ entities' = Append(entities, next_entity_id)
            /\ dead_entities' = dead_entities
            /\ lastOp' = Op("spawn", next_entity_id, NoType, NoValue, FALSE, 0)
    /\ UNCHANGED <<components, addCalled>>
    /\ UNCHANGED notWorld

\* World::spawn.  lastOp.e is the returned entity, lastOp.hit whether it was
\* recycled.  The fresh branch is capped at MaxEntities ids.
Spawn ==
    /\ IF dead_entities # <<>>
       THEN /\ entities' = Append(entities, dead_entities[Len(dead_entities)])
            /\ dead_entities' = SubSeq(dead_entities, 1, Len(dead_entities) - 1)
            /\ next_entity_id' = next_entity_id
            /\ lastOp' = Op("spawn", dead_entities[Len(dead_entities)],
                            NoType, NoValue, TRUE, 0)
       ELSE /\ next_entity_id < MaxEntities
            /\ next_entity_id' = next_entity_id + 1
            /\ entities' = Append(entities, next_entity_id)
            /\ dead_entities' = dead_entities
            /\ lastOp' = Op("spawn", next_entity_id, NoType, NoValue, FALSE, 0)
    /\ UNCHANGED <<components, addCalled>>
    /\ UNCHANGED notWorld

\* Mutant of purge: the loop over the storages left out.
purge_Skip(comps, entity) == comps

\* The loop of despawn over components.values_mut().
purge(comps, entity) ==
    [T \in DOMAIN comps |-> Storage_remove(comps[T], entity)]

\* Mutant of Despawn: the entity is pushed on the free-list whether or not it
\* was found in the live list.
Despawn_PushAlways(entity) ==
    LET pos == position(entities, entity)
    IN  /\ entities' = IF pos # 0 THEN swap_remove(entities, pos) ELSE entities
        /\ dead_entities' = Append(dead_entities, entity)
        /\ components' = purge(components, entity)
        /\ lastOp' = Op("despawn", entity, NoType, NoValue, pos # 0, 0)
        /\ UNCHANGED <<next_entity_id, addCalled>>
        /\ UNCHANGED notWorld

\* World::despawn.  lastOp.hit: the entity was found in the live list;
\* lastOp.purged: the number of storages that held an entry for it.
Despawn(entity) ==
    LET pos == position(entities, entity)
    IN  /\ IF pos # 0
           THEN IF pos > Len(entities)
                THEN \* swap_remove panics on an index out of bounds
                     /\ UNCHANGED <<entities, dead_entities, components>>
                     /\ lastOp' = Op("panic", entity, NoType, NoValue, FALSE, 0)
                ELSE /\ entities' = swap_remove(entities, pos)
                     /\ dead_entities' = Append(dead_entities, entity)
                     /\ components' = purge(components, entity)
                     /\ lastOp' = Op("despawn", entity, NoType, NoValue, TRUE,
                                     Cardinality({T \in DOMAIN components :
                                                     Storage_has(components[T], entity)}))
           ELSE /\ UNCHANGED <<entities, dead_entities, components>>
                /\ lastOp' = Op("despawn", entity, NoType, NoValue, FALSE, 0)
        /\ UNCHANGED <<next_entity_id, addCalled>>
        /\ UNCHANGED notWorld

\* World::add.  lastOp.hit: the insert replaced an earlier value.  Either
\* unwrap failing (no storage under T's type id, or one that is no Storage<T>)
\* is a panic, after the storage has been registered.
Add(entity, T, component) ==
    LET withStorage ==
            IF T \notin DOMAIN components
            THEN [U \in (DOMAIN components) \cup {T} |->
                     IF U = T THEN Storage_new(T) ELSE components[U]]
            ELSE components
    IN  /\ IF T \in DOMAIN withStorage /\ downcasts(withStorage[T], T)
           THEN /\ components' =
                       [withStorage EXCEPT
                           ![T] = Storage_insert(withStorage[T], entity, component)]
                /\ lastOp' = Op("add", entity, T, component, has(T, entity), 0)
           ELSE /\ components' = withStorage
                /\ lastOp' = Op("panic", entity, T, component, FALSE, 0)
        /\ addCalled' = addCalled \cup {T}
        /\ UNCHANGED <<next_entity_id, entities, dead_entities>>
        /\ UNCHANGED notWorld

\* World::get (a read: only the call is recorded).
Get(entity, T) ==
    /\ lastOp' = Op("get", NoEntity, NoType, NoValue, FALSE, 0)
    /\ UNCHANGED <<next_entity_id, entities, dead_entities, components, addCalled>>
    /\ UNCHANGED notWorld

\* World::get_mut, and the caller's write of `component` through the
\* returned reference when there is one.
GetMut(entity, T, component) ==
    /\ IF T \in DOMAIN components
          /\ downcasts(components[T], T)
          /\ Storage_has(components[T], entity)
       THEN components' =
                [components EXCEPT ![T].data[entity] = component]
       ELSE UNCHANGED components
    /\ lastOp' = Op("get_mut", NoEntity, NoType, NoValue, FALSE, 0)
    /\ UNCHANGED <<next_entity_id, entities, dead_entities, addCalled>>
    /\ UNCHANGED notWorld

\* World::has (a read: only the call is recorded).
Has(entity, T) ==
    /\ lastOp' = Op("has", NoEntity, NoType, NoValue, FALSE, 0)
    /\ UNCHANGED <<next_entity_id, entities, dead_entities, components, addCalled>>
    /\ UNCHANGED notWorld

\* Mutant of Remove: a storage emptied by the removal is dropped from the map.
Remove_DropEmpty(entity, T) ==
    /\ IF T \in DOMAIN components
       THEN IF DOMAIN Storage_remove(components[T], entity).data = {}
            THEN components' = [U \in (DOMAIN components) \ {T} |-> components[U]]
            ELSE components' =
                     [components EXCEPT ![T] = Storage_remove(components[T], entity)]
       ELSE UNCHANGED components
    /\ lastOp' = Op("remove", entity, T, NoValue, has(T, entity), 0)
    /\ UNCHANGED <<next_entity_id, entities, dead_entities, addCalled>>
    /\ UNCHANGED notWorld

\* World::remove.  lastOp.hit: an entry was deleted.
Remove(entity, T) ==
    /\ IF T \in DOMAIN components
       THEN components' = [components EXCEPT ![T] = Storage_remove(components[T], entity)]
       ELSE UNCHANGED components
    /\ lastOp' = Op("remove", entity, T, NoValue, has(T, entity), 0)
    /\ UNCHANGED <<next_entity_id, entities, dead_entities, addCalled>>
    /\ UNCHANGED notWorld

\* World::query, iterated to its end (a read: only the call is recorded).
Query(T) ==
    /\ lastOp' = Op("query", NoEntity, NoType, NoValue, FALSE, 0)
    /\ UNCHANGED <<next_entity_id, entities, dead_entities, components, addCalled>>
    /\ UNCHANGED notWorld

\* World::query_mut, iterated to its end: the caller writes `component`
\* through every reference it is handed (none without a Storage<T>).
QueryMut(T, component) ==
    /\ IF T \in DOMAIN components /\ downcasts(components[T], T)
       THEN components' =
                [components EXCEPT ![T].data =
                    [e \in DOMAIN components[T].data |-> component]]
       ELSE UNCHANGED components
    /\ lastOp' = Op("query_mut", NoEntity, NoType, NoValue, FALSE, 0)
    /\ UNCHANGED <<next_entity_id, entities, dead_entities, addCalled>>
    /\ UNCHANGED notWorld

\* World::is_alive (a read: only the call is recorded).
IsAlive(entity) ==
    /\ lastOp' = Op("is_alive", NoEntity, NoType, NoValue, FALSE, 0)
    /\ UNCHANGED <<next_entity_id, entities, dead_entities, components, addCalled>>
    /\ UNCHANGED notWorld

WorldNext ==
    \/ Spawn
    \/ \E entity \in EntityIds : Despawn(entity)
    \/ \E entity \in EntityIds, T \in ComponentTypes, component \in Values :
           Add(entity, T, component)
    \/ \E entity \in EntityIds, T \in ComponentTypes : Get(entity, T)
    \/ \E entity \in EntityIds, T \in ComponentTypes, component \in Values :
           GetMut(entity, T, component)
    \/ \E entity \in EntityIds, T \in ComponentTypes : Has(entity, T)
    \/ \E entity \in EntityIds, T \in ComponentTypes : Remove(entity, T)
    \/ \E T \in ComponentTypes : Query(T)
    \/ \E T \in ComponentTypes, component \in Values : QueryMut(T, component)
    \/ \E entity \in EntityIds : IsAlive(entity)

----------------------------------------------------------------------------
\* Helpers of the properties below

NoDuplicates(vec) ==
    \A i, j \in 1 .. Len(vec) : i # j => vec[i] # vec[j]

\* The entities query<T>() yields.
queried(T) == {p[1] : p \in query(T)}

----------------------------------------------------------------------------
\* C1: in every reachable state every key of every component storage is an
\* entity of the live list, and query<T>() yields only live entities.
\* (Stated as claimed; add<T> on an id that is not alive violates it.)
C1_StorageKeysAreLive ==
    /\ \A T \in DOMAIN components :
           \A e \in DOMAIN components[T].data : is_alive(e)
    /\ \A T \in ComponentTypes : \A e \in queried(T) : is_alive(e)

\* C2: the live list never holds an id twice: the id a spawn() returns was
\* not alive immediately before the call, and the live list after every step
\* has no duplicates.
C2_LiveIdsUnique ==
    [][ /\ (lastOp'.op = "spawn" => ~is_alive(lastOp'.e))
        /\ NoDuplicates(entities') ]_vars

\* C2 witness: a spawn has returned a recycled id while another entity is alive.
C2_Witness ==
    /\ lastOp.op = "spawn"
    /\ lastOp.hit
    /\ Len(entities) >= 2
    /\ is_alive(lastOp.e)

\* C3: despawn(e) of a live e: afterwards e is not alive, e is the last element
\* of the free-list, and for every type T that was attached to e, get<T>(e) is
\* absent, has<T>(e) is false and query<T>() does not yield e.
C3_DespawnPurges ==
    [][ lastOp'.op = "despawn" =>
        \A e \in EntityIds :
          (lastOp'.e = e /\ is_alive(e)) =>
             /\ ~is_alive(e)'
             /\ dead_entities' # <<>>
             /\ dead_entities'[Len(dead_entities')] = e
             /\ \A T \in ComponentTypes :
                    has(T, e) =>
                       /\ get(T, e)' = None
                       /\ ~has(T, e)'
                       /\ e \notin queried(T)' ]_vars

\* C3 witness: a live entity carrying a component of every type has been
\* despawned while another entity keeps its components.
C3_Witness ==
    /\ lastOp.op = "despawn"
    /\ lastOp.hit
    /\ lastOp.purged = Cardinality(ComponentTypes)
    /\ ~is_alive(lastOp.e)
    /\ \E e \in EntityIds, T \in ComponentTypes : is_alive(e) /\ has(T, e)

\* C4: the entity a spawn() has just returned, fresh or recycled, has no
\* component of any type.
\* (Stated as claimed; a component added to the id while it was not alive is
\* still there.)
C4_SpawnedHasNoComponents ==
    lastOp.op = "spawn" =>
        \A T \in ComponentTypes :
            ~has(T, lastOp.e) /\ get(T, lastOp.e) = None

\* C5: despawn(e) of an entity that is not in the live list changes nothing:
\* the live list, the free-list, the fresh-id counter and every storage stay
\* as they were.
C5_DespawnDeadIsNoOp ==
    [][ lastOp'.op = "despawn" =>
        \A e \in EntityIds :
          (lastOp'.e = e /\ ~is_alive(e)) =>
             UNCHANGED <<next_entity_id, entities, dead_entities, components>> ]_vars

\* C5 witness: despawn has been called on an id that was not alive, once for
\* an id in the free-list (already despawned) with a live entity and a
\* component around it.
C5_Witness ==
    /\ lastOp.op = "despawn"
    /\ ~lastOp.hit
    /\ contains(dead_entities, lastOp.e)
    /\ entities # <<>>
    /\ \E e \in EntityIds, T \in ComponentTypes : has(T, e)

\* The number of times query<T>() yields the entity.
yields(T, entity) == Cardinality({p \in query(T) : p[1] = entity})

\* C6: the free-list is a stack.  despawn of a live entity pushes it at the
\* end; spawn() with a non-empty free-list returns its last element (the most
\* recently despawned id still in it), pops it and leaves the fresh-id counter
\* alone; with an empty free-list it returns the counter's value and raises
\* the counter by exactly one.
C6_SpawnRecyclesLifo ==
    [][ /\ (lastOp'.op = "despawn" /\ is_alive(lastOp'.e)) =>
               dead_entities' = Append(dead_entities, lastOp'.e)
        /\ lastOp'.op = "spawn" =>
               IF dead_entities # <<>>
               THEN /\ lastOp'.e = dead_entities[Len(dead_entities)]
                    /\ dead_entities' = SubSeq(dead_entities, 1, Len(dead_entities) - 1)
                    /\ next_entity_id' = next_entity_id
               ELSE /\ lastOp'.e = next_entity_id
                    /\ next_entity_id' = next_entity_id + 1
                    /\ dead_entities' = <<>> ]_vars

\* C6 witness: spawn has recycled an id from a free-list of at least two ids.
C6_Witness ==
    /\ lastOp.op = "spawn"
    /\ lastOp.hit
    /\ dead_entities # <<>>

\* C7: after add<T>(e, v), get<T>(e) is v and query<T>() yields e once, alive
\* or not; the live list, the free-list, the storages of other types and the
\* T components of other entities are unchanged.
C7_AddSetsOnlyItsEntry ==
    [][ lastOp'.op = "add" =>
        \A entity \in EntityIds : lastOp'.e = entity =>
        \A U \in ComponentTypes : lastOp'.t = U =>
        \A component \in Values : lastOp'.v = component =>
             /\ get(U, entity)' = component
             /\ yields(U, entity)' = 1
             /\ UNCHANGED <<next_entity_id, entities, dead_entities>>
             /\ \A T \in ComponentTypes \ {U} :
                    (T \in DOMAIN components') = (T \in DOMAIN components)
             /\ \A T \in ComponentTypes, e \in EntityIds :
                    (T # U \/ e # entity) =>
                        /\ get(T, e)' = get(T, e)
                        /\ has(T, e)' = has(T, e) ]_vars

\* C7 witness: add has replaced an earlier component of an entity that is not
\* alive, next to another entity's component of the same type.
C7_Witness ==
    /\ lastOp.op = "add"
    /\ lastOp.hit
    /\ ~is_alive(lastOp.e)
    /\ \E e \in EntityIds \ {lastOp.e} : has(lastOp.t, e)

\* C8: the storage of a type T exists if and only if add<T> has been called:
\* no other method creates a storage and none deletes one.
C8_StorageExistsIffAdded == DOMAIN components = addCalled

\* C8 witness: the last component of a type has been removed or purged, its
\* storage is still there and empty, and another type never got a storage.
C8_Witness ==
    /\ lastOp.op \in {"remove", "despawn"}
    /\ lastOp.hit
    /\ \E T \in DOMAIN components : DOMAIN components[T].data = {}
    /\ \E T \in ComponentTypes : T \notin DOMAIN components

\* C9: remove<T>(e) deletes at most the (e, T) entry: the live list, the
\* free-list, the counter, the set of storages and every other (entity, type)
\* entry are unchanged, and nothing at all changes when e has no T component
\* or T has no storage.
C9_RemoveOnlyItsEntry ==
    [][ lastOp'.op = "remove" =>
        \A entity \in EntityIds : lastOp'.e = entity =>
        \A U \in ComponentTypes : lastOp'.t = U =>
             /\ UNCHANGED <<next_entity_id, entities, dead_entities>>
             /\ DOMAIN components' = DOMAIN components
             /\ \A T \in ComponentTypes, e \in EntityIds :
                    (T # U \/ e # entity) =>
                        /\ get(T, e)' = get(T, e)
                        /\ has(T, e)' = has(T, e)
             /\ ~has(U, entity) => components' = components ]_vars

\* C9 witness: remove has deleted an entry while another entity keeps its
\* component of that type and the entity keeps a component of another type.
C9_Witness ==
    /\ lastOp.op = "remove"
    /\ lastOp.hit
    /\ \E e \in EntityIds \ {lastOp.e} : has(lastOp.t, e)
    /\ \E T \in ComponentTypes \ {lastOp.t} : has(T, lastOp.e)

\* C10: for every entity e and type T, has<T>(e) is true iff get<T>(e) is
\* present iff query<T>() yields e exactly once (and otherwise never); all
\* three report false / absent / empty for a type never added.
C10_HasGetQueryAgree ==
    \A T \in ComponentTypes :
        /\ \A e \in EntityIds :
               /\ has(T, e) <=> (get(T, e) # None)
               /\ has(T, e) <=> (yields(T, e) = 1)
               /\ ~has(T, e) => yields(T, e) = 0
        /\ T \notin addCalled =>
               /\ query(T) = {}
               /\ \A e \in EntityIds : ~has(T, e) /\ get(T, e) = None

\* C10 witness: remove has deleted an entity's component of a type that
\* another entity still carries, and another type has never been added.
C10_Witness ==
    \E T1, T2 \in ComponentTypes, e1, e2 \in EntityIds :
        /\ lastOp.op = "remove" /\ lastOp.hit
        /\ lastOp.t = T1 /\ lastOp.e = e2
        /\ has(T1, e1)
        /\ ~has(T1, e2)
        /\ T2 \notin addCalled

\* C11: no method of World panics, whatever entity id (alive, despawned or
\* never allocated) and component type it is given: no call has ended in a
\* panic, and the storage registered under a type id is always a Storage of
\* that type, so both unwraps of add succeed.
C11_NoPanic ==
    /\ lastOp.op # "panic"
    /\ \A T \in DOMAIN components : downcasts(components[T], T)

\* C11 witness: add has been called on an id that was never allocated, for a
\* type whose storage other methods had been asked about before.
C11_Witness ==
    /\ lastOp.op = "add"
    /\ lastOp.e >= next_entity_id
    /\ ~is_alive(lastOp.e)
    /\ dead_entities # <<>>
    /\ DOMAIN components = ComponentTypes

\* The ids a Vec<Entity> holds.
ids(vec) == {vec[i] : i \in 1 .. Len(vec)}

\* C29: in every reachable state the live list and the free-list each hold no
\* id twice, share no id, and together hold exactly the ids
\* 0 .. next_entity_id - 1; a despawn of an id >= next_entity_id leaves that
\* id out of both lists.
C29_ListsPartitionIds ==
    /\ NoDuplicates(entities)
    /\ NoDuplicates(dead_entities)
    /\ ids(entities) \cap ids(dead_entities) = {}
    /\ ids(entities) \cup ids(dead_entities) = 0 .. (next_entity_id - 1)
    /\ (lastOp.op = "despawn" /\ lastOp.e >= next_entity_id) =>
           (~contains(entities, lastOp.e) /\ ~contains(dead_entities, lastOp.e))

\* Witness of C29: despawn has been called on an id that spawn has not handed
\* out yet, while an id that it has handed out is in one of the lists.
C29_Witness ==
    /\ lastOp.op = "despawn"
    /\ lastOp.e >= next_entity_id
    /\ next_entity_id > 0
    /\ ~contains(entities, lastOp.e)
    /\ ~contains(dead_entities, lastOp.e)

----------------------------------------------------------------------------
(***************************************************************************)
(* The batched 2D renderer (src/src/render/renderer2d.rs).                 *)
(*                                                                         *)
(* Coordinates are exact: every length of the glyph code (12, 20, 2.5,     *)
(* 0.6 * 12, ...) is a multiple of 1/20, so a coordinate is an integer     *)
(* number of twentieths and scale an integer factor; f32 rounding is not   *)
(* modelled.  Rotations are whole quarter turns, whose sine and cosine are *)
(* exact.                                                                  *)
(***************************************************************************)

\* Mutant of MAX_QUADS: a batch of twice the size, whose last vertices have
\* numbers that do not fit 16 bits.
MAX_QUADS_Doubled == 2 * 10000

\* const MAX_QUADS / MAX_VERTICES / MAX_INDICES
MAX_QUADS == 10000
MAX_VERTICES == MAX_QUADS * 4
MAX_INDICES == MAX_QUADS * 6

\* `as u16` and u16 addition (wrapping, as in a release build; a debug build
\* panics where the sum wraps).
U16(n) == n % 65536

\* The six indices pushed for quad slot i.
quad_indices(i) ==
    LET base == U16(i * 4)
    IN  << base, U16(base + 1), U16(base + 2), base, U16(base + 2), U16(base + 3) >>

\* The index buffer Renderer2D::new generates: indices[k] for k = 1 ..
\* MAX_INDICES.
indices == [k \in 1 .. MAX_INDICES |-> quad_indices((k - 1) \div 6)[((k - 1) % 6) + 1]]

\* The cap the batch is run with: it stands for MAX_QUADS in the guards of
\* draw_quad and draw_sprite, since a batch of 10000 quads is out of reach of
\* an exhaustive search.  The widest glyph (digit 8) has seven quads.
BatchCap == 8

\* The draw_text / draw_number calls of one frame that the glyph
\* specification follows.
MaxGlyphCalls == 2

\* A length of n / d units, in twentieths.
Fix(n, d) == (20 * n) \div d

\* x * (n / d), for the factors 0.5, 0.25, 0.6, 0.3, 0.8 of the code.
Mul(x, n, d) == (x * n) \div d

Vec2_add(a, b) == <<a[1] + b[1], a[2] + b[2]>>

\* rotation.sin() and rotation.cos() of a rotation of r quarter turns.
sin_r(r) == CASE r % 4 = 0 -> 0 [] r % 4 = 1 -> 1 [] r % 4 = 2 -> 0 [] OTHER -> 0 - 1
cos_r(r) == CASE r % 4 = 0 -> 1 [] r % 4 = 1 -> 0 [] r % 4 = 2 -> 0 - 1 [] OTHER -> 0

\* Color (alpha in hundredths) and Color::with_alpha.
WHITE == [rgb |-> "white", a |-> 100]
with_alpha(color, a) == [color EXCEPT !.a = a]

Vertex2D_new(pos, uv, color) == [position |-> pos, uv |-> uv, color |-> color]

\* The part of the renderer the draw methods work on.
Batch(v, q, c) == [vertices |-> v, quad_count |-> q, calls |-> c]
CurrentBatch == Batch(vertices, quad_count, quadCalls)

count_call(b) == IF b.calls < BatchCap + 2 THEN b.calls + 1 ELSE b.calls

\* The four corners of draw_quad / draw_sprite: rotated about the centre,
\* then translated.
corners(centre, size, rotation) ==
    LET hx == Mul(size[1], 1, 2)
        hy == Mul(size[2], 1, 2)
        c  == << <<0 - hx, 0 - hy>>, <<hx, 0 - hy>>, <<hx, hy>>, <<0 - hx, hy>> >>
    IN  [i \in 1 .. 4 |->
            Vec2_add(centre,
                     <<c[i][1] * cos_r(rotation) - c[i][2] * sin_r(rotation),
                       c[i][1] * sin_r(rotation) + c[i][2] * cos_r(rotation)>>)]

\* The four vertices pushed for one quad.
quad_vertices(centre, size, rotation, color, uvs) ==
    LET pos == corners(centre, size, rotation)
    IN  << Vertex2D_new(pos[1], uvs[1], color), Vertex2D_new(pos[2], uvs[2], color),
           Vertex2D_new(pos[3], uvs[3], color), Vertex2D_new(pos[4], uvs[4], color) >>

\* The fixed UV unit square of draw_quad.
quad_uvs == << <<0, 1>>, <<1, 1>>, <<1, 0>>, <<0, 0>> >>

\* Mutant of draw_quad: `>` in place of `>=` in the cap test.
draw_quad_OffByOne(b, centre, size, rotation, color) ==
    IF b.quad_count > BatchCap
    THEN [b EXCEPT !.calls = count_call(b)]
    ELSE Batch(b.vertices \o quad_vertices(centre, size, rotation, color, quad_uvs),
               b.quad_count + 1, count_call(b))

\* Renderer2D::draw_quad on a batch.
draw_quad(b, centre, size, rotation, color) ==
    IF b.quad_count >= BatchCap
    THEN [b EXCEPT !.calls = count_call(b)]
    ELSE Batch(b.vertices \o quad_vertices(centre, size, rotation, color, quad_uvs),
               b.quad_count + 1, count_call(b))

\* The UVs draw_sprite derives from uv_rect = [x, y, w, h].
sprite_uvs(uv_rect) ==
    << <<uv_rect[1], uv_rect[2] + uv_rect[4]>>,
       <<uv_rect[1] + uv_rect[3], uv_rect[2] + uv_rect[4]>>,
       <<uv_rect[1] + uv_rect[3], uv_rect[2]>>,
       <<uv_rect[1], uv_rect[2]>> >>

\* Mutant of draw_sprite: the vertices are pushed without quad_count += 1.
draw_sprite_NoCount(b, centre, size, rotation, color, uv_rect) ==
    IF b.quad_count >= BatchCap
    THEN [b EXCEPT !.calls = count_call(b)]
    ELSE Batch(b.vertices \o quad_vertices(centre, size, rotation, color,
                                           sprite_uvs(uv_rect)),
               b.quad_count, count_call(b))

\* Renderer2D::draw_sprite on a batch.
draw_sprite(b, centre, size, rotation, color, uv_rect) ==
    IF b.quad_count >= BatchCap
    THEN [b EXCEPT !.calls = count_call(b)]
    ELSE Batch(b.vertices \o quad_vertices(centre, size, rotation, color,
                                           sprite_uvs(uv_rect)),
               b.quad_count + 1, count_call(b))

\* The decimal digits as characters; a character is a one-character string,
\* a text the sequence of its characters.
DigitChars == <<"0", "1", "2", "3", "4", "5", "6", "7", "8", "9">>

\* char::to_digit(10): the digit's value, or NoDigit for None.
NoDigit == 0 - 1
to_digit(ch) ==
    IF \E d \in 0 .. 9 : DigitChars[d + 1] = ch
    THEN CHOOSE d \in 0 .. 9 : DigitChars[d + 1] = ch
    ELSE NoDigit

\* format!("{}", number) of a number >= 0: its decimal digits, most
\* significant first.
RECURSIVE format_unsigned(_)
format_unsigned(n) ==
    IF n < 10 THEN << DigitChars[n + 1] >>
    ELSE Append(format_unsigned(n \div 10), DigitChars[(n % 10) + 1])

\* format!("{}", number) of an i32 (used above i32::MIN).
format(number) ==
    IF number < 0 THEN << "-" >> \o format_unsigned(0 - number)
    ELSE format_unsigned(number)

\* Mutant of segments: digit 5 lights B in place of C.
segments_FiveWithB(digit) ==
    CASE digit = 0 -> <<TRUE,  TRUE,  TRUE,  TRUE,  TRUE,  TRUE,  FALSE>>
      [] digit = 1 -> <<FALSE, TRUE,  TRUE,  FALSE, FALSE, FALSE, FALSE>>
      [] digit = 2 -> <<TRUE,  TRUE,  FALSE, TRUE,  TRUE,  FALSE, TRUE>>
      [] digit = 3 -> <<TRUE,  TRUE,  TRUE,  TRUE,  FALSE, FALSE, TRUE>>
      [] digit = 4 -> <<FALSE, TRUE,  TRUE,  FALSE, FALSE, TRUE,  TRUE>>
      [] digit = 5 -> <<TRUE,  TRUE,  FALSE, TRUE,  FALSE, TRUE,  TRUE>>
      [] digit = 6 -> <<TRUE,  FALSE, TRUE,  TRUE,  TRUE,  TRUE,  TRUE>>
      [] digit = 7 -> <<TRUE,  TRUE,  TRUE,  FALSE, FALSE, FALSE, FALSE>>
      [] digit = 8 -> <<TRUE,  TRUE,  TRUE,  TRUE,  TRUE,  TRUE,  TRUE>>
      [] digit = 9 -> <<TRUE,  TRUE,  TRUE,  TRUE,  FALSE, TRUE,  TRUE>>
      [] OTHER     -> <<FALSE, FALSE, FALSE, FALSE, FALSE, FALSE, FALSE>>

\* The segment table of draw_digit_segments: segments[0..6] are A..G.
segments(digit) ==
    CASE digit = 0 -> <<TRUE,  TRUE,  TRUE,  TRUE,  TRUE,  TRUE,  FALSE>>
      [] digit = 1 -> <<FALSE, TRUE,  TRUE,  FALSE, FALSE, FALSE, FALSE>>
      [] digit = 2 -> <<TRUE,  TRUE,  FALSE, TRUE,  TRUE,  FALSE, TRUE>>
      [] digit = 3 -> <<TRUE,  TRUE,  TRUE,  TRUE,  FALSE, FALSE, TRUE>>
      [] digit = 4 -> <<FALSE, TRUE,  TRUE,  FALSE, FALSE, TRUE,  TRUE>>
      [] digit = 5 -> <<TRUE,  FALSE, TRUE,  TRUE,  FALSE, TRUE,  TRUE>>
      [] digit = 6 -> <<TRUE,  FALSE, TRUE,  TRUE,  TRUE,  TRUE,  TRUE>>
      [] digit = 7 -> <<TRUE,  TRUE,  TRUE,  FALSE, FALSE, FALSE, FALSE>>
      [] digit = 8 -> <<TRUE,  TRUE,  TRUE,  TRUE,  TRUE,  TRUE,  TRUE>>
      [] digit = 9 -> <<TRUE,  TRUE,  TRUE,  TRUE,  FALSE, TRUE,  TRUE>>
      [] OTHER     -> <<FALSE, FALSE, FALSE, FALSE, FALSE, FALSE, FALSE>>

\* Centre and size of segment k (1..7 for A..G) of a digit at pos:
\* w = 12 scale, h = 20 scale, t = 2.5 scale, cx = pos.x + w / 2, cy = pos.y.
segment_centre(k, pos, scale) ==
    LET w  == Fix(12, 1) * scale
        h  == Fix(20, 1) * scale
        t  == Fix(5, 2) * scale
        cx == pos[1] + Mul(w, 1, 2)
        cy == pos[2]
    IN  CASE k = 1 -> <<cx, cy + Mul(h, 1, 2) - Mul(t, 1, 2)>>
          [] k = 2 -> <<cx + Mul(w, 1, 2) - Mul(t, 1, 2), cy + Mul(h, 1, 4)>>
          [] k = 3 -> <<cx + Mul(w, 1, 2) - Mul(t, 1, 2), cy - Mul(h, 1, 4)>>
          [] k = 4 -> <<cx, cy - Mul(h, 1, 2) + Mul(t, 1, 2)>>
          [] k = 5 -> <<cx - Mul(w, 1, 2) + Mul(t, 1, 2), cy - Mul(h, 1, 4)>>
          [] k = 6 -> <<cx - Mul(w, 1, 2) + Mul(t, 1, 2), cy + Mul(h, 1, 4)>>
          [] OTHER -> <<cx, cy>>

segment_size(k, scale) ==
    LET w == Fix(12, 1) * scale
        h == Fix(20, 1) * scale
        t == Fix(5, 2) * scale
    IN  IF k \in {1, 4, 7} THEN <<w - t * 2, t>> ELSE <<t, Mul(h, 1, 2) - t>>

\* The seven `if segments[k]` of draw_digit_segments, from the k-th on.
RECURSIVE draw_segments_from(_, _, _, _, _, _)
draw_segments_from(b, k, pos, digit, scale, color) ==
    IF k > 7 THEN b
    ELSE draw_segments_from(
             IF segments(digit)[k]
             THEN draw_quad(b, segment_centre(k, pos, scale), segment_size(k, scale),
                            0, color)
             ELSE b,
             k + 1, pos, digit, scale, color)

\* Renderer2D::draw_digit_segments on a batch.
draw_digit_segments(b, pos, digit, scale, color) ==
    draw_segments_from(b, 1, pos, digit, scale, color)

\* The loop of draw_number over the characters s[i..], x the pen position.
RECURSIVE draw_number_chars(_, _, _, _, _, _, _)
draw_number_chars(b, s, i, x, y, scale, color) ==
    IF i > Len(s) THEN [batch |-> b, x |-> x]
    ELSE LET digit_width == Fix(12, 1) * scale
             spacing     == Fix(2, 1) * scale
             ch          == s[i]
             drawn ==
                 IF ch = "-"
                 THEN draw_quad(b, <<x + Mul(digit_width, 1, 2), y>>,
                                <<Mul(digit_width, 3, 5), Fix(2, 1) * scale>>, 0, color)
                 ELSE IF to_digit(ch) # NoDigit
                      THEN draw_digit_segments(b, <<x, y>>, to_digit(ch), scale, color)
                      ELSE b
         IN  draw_number_chars(drawn, s, i + 1, x + digit_width + spacing, y,
                               scale, color)

\* Mutant of draw_number: the loop starts at the second character, so the
\* quads of the first one (a minus sign, or the leading digit) are missing.
draw_number_SkipFirst(b, pos, number, scale, color) ==
    LET done == draw_number_chars(b, format(number), 2,
                                  pos[1] + Fix(12, 1) * scale + Fix(2, 1) * scale,
                                  pos[2], scale, color)
    IN  [batch |-> done.batch, ret |-> done.x - pos[1] - Fix(2, 1) * scale]

\* Renderer2D::draw_number on a batch: the batch it leaves and the width it
\* returns.
draw_number(b, pos, number, scale, color) ==
    LET done == draw_number_chars(b, format(number), 1, pos[1], pos[2], scale, color)
    IN  [batch |-> done.batch, ret |-> done.x - pos[1] - Fix(2, 1) * scale]

\* Renderer2D::draw_letter_f on a batch.
draw_letter_f(b, pos, scale, color) ==
    LET w  == Fix(12, 1) * scale
        h  == Fix(20, 1) * scale
        t  == Fix(5, 2) * scale
        cx == pos[1] + Mul(w, 1, 2)
        cy == pos[2]
        b1 == draw_quad(b, <<cx, cy + Mul(h, 1, 2) - Mul(t, 1, 2)>>, <<w - t, t>>,
                        0, color)
        b2 == draw_quad(b1, <<cx - Mul(w, 1, 2) + Mul(t, 1, 2), cy>>, <<t, h>>,
                        0, color)
    IN  draw_quad(b2, <<cx - Mul(t, 1, 2), cy>>, <<Mul(w, 3, 5), t>>, 0, color)

\* Renderer2D::draw_letter_p on a batch.
draw_letter_p(b, pos, scale, color) ==
    LET w  == Fix(12, 1) * scale
        h  == Fix(20, 1) * scale
        t  == Fix(5, 2) * scale
        cx == pos[1] + Mul(w, 1, 2)
        cy == pos[2]
        b1 == draw_quad(b, <<cx, cy + Mul(h, 1, 2) - Mul(t, 1, 2)>>, <<w - t, t>>,
                        0, color)
        b2 == draw_quad(b1, <<cx - Mul(w, 1, 2) + Mul(t, 1, 2), cy>>, <<t, h>>,
                        0, color)
        b3 == draw_quad(b2, <<cx + Mul(w, 1, 2) - Mul(t, 1, 2), cy + Mul(h, 1, 4)>>,
                        <<t, Mul(h, 1, 2) - t>>, 0, color)
    IN  draw_quad(b3, <<cx, cy>>, <<w - t, t>>, 0, color)

\* Mutant of draw_char: the box of an unknown character is drawn in the
\* text's colour as it is.
draw_char_OpaqueBox(b, ch, x, y, scale, color) ==
    LET char_width == Fix(12, 1) * scale
        t          == Fix(5, 2) * scale
    IN  CASE to_digit(ch) # NoDigit ->
                 draw_digit_segments(b, <<x, y>>, to_digit(ch), scale, color)
          [] ch = ":" ->
                 draw_quad(
                     draw_quad(b, <<x + Mul(char_width, 3, 10), y + Fix(5, 1) * scale>>,
                               <<t, t>>, 0, color),
                     <<x + Mul(char_width, 3, 10), y - Fix(5, 1) * scale>>,
                     <<t, t>>, 0, color)
          [] ch = " " -> b
          [] ch \in {"F", "f"} -> draw_letter_f(b, <<x, y>>, scale, color)
          [] ch \in {"P", "p"} -> draw_letter_p(b, <<x, y>>, scale, color)
          [] ch \in {"S", "s"} -> draw_digit_segments(b, <<x, y>>, 5, scale, color)
          [] OTHER ->
                 draw_quad(b, <<x + Mul(char_width, 1, 2), y>>,
                           <<Mul(char_width, 4, 5), Fix(20, 1) * scale>>, 0, color)

\* The match of draw_text on one character at pen position x.
draw_char(b, ch, x, y, scale, color) ==
    LET char_width == Fix(12, 1) * scale
        t          == Fix(5, 2) * scale
    IN  CASE to_digit(ch) # NoDigit ->
                 draw_digit_segments(b, <<x, y>>, to_digit(ch), scale, color)
          [] ch = ":" ->
                 draw_quad(
                     draw_quad(b, <<x + Mul(char_width, 3, 10), y + Fix(5, 1) * scale>>,
                               <<t, t>>, 0, color),
                     <<x + Mul(char_width, 3, 10), y - Fix(5, 1) * scale>>,
                     <<t, t>>, 0, color)
          [] ch = " " -> b
          [] ch \in {"F", "f"} -> draw_letter_f(b, <<x, y>>, scale, color)
          [] ch \in {"P", "p"} -> draw_letter_p(b, <<x, y>>, scale, color)
          [] ch \in {"S", "s"} -> draw_digit_segments(b, <<x, y>>, 5, scale, color)
          [] OTHER ->
                 draw_quad(b, <<x + Mul(char_width, 1, 2), y>>,
                           <<Mul(char_width, 4, 5), Fix(20, 1) * scale>>, 0,
                           with_alpha(color, 30))

\* The loop of draw_text over the characters text[i..].
RECURSIVE draw_text_chars(_, _, _, _, _, _, _)
draw_text_chars(b, text, i, x, y, scale, color) ==
    IF i > Len(text) THEN [batch |-> b, x |-> x]
    ELSE draw_text_chars(draw_char(b, text[i], x, y, scale, color), text, i + 1,
                         x + Fix(12, 1) * scale + Fix(3, 1) * scale, y, scale, color)

\* Mutant of draw_text: the trailing spacing is not taken off the width.
draw_text_KeepSpacing(b, pos, text, scale, color) ==
    LET done == draw_text_chars(b, text, 1, pos[1], pos[2], scale, color)
    IN  [batch |-> done.batch, ret |-> done.x - pos[1]]

\* Renderer2D::draw_text on a batch: the batch it leaves and the width it
\* returns.
draw_text(b, pos, text, scale, color) ==
    LET done == draw_text_chars(b, text, 1, pos[1], pos[2], scale, color)
    IN  [batch |-> done.batch, ret |-> done.x - pos[1] - Fix(3, 1) * scale]

\* Mutant of begin: the quad counter is not reset.
begin_KeepCount(b) == Batch(<<>>, b.quad_count, 0)

\* Renderer2D::begin on a batch: vertices.clear(); quad_count = 0.
begin(b) == Batch(<<>>, 0, 0)

\* A GPU command: queue.write_buffer or a render pass call.  The index count
\* of draw_indexed is (quad_count * 6) as u32, a cast that changes nothing
\* for a quad_count of at most MAX_QUADS.
Cmd(cmd, what, count) == [cmd |-> cmd, what |-> what, count |-> count]

\* Mutant of flush_commands: the early return on an empty batch left out.
flush_commands_NoGuard(pipeline, textured) ==
    << Cmd("write_buffer", "vertex_buffer", Len(vertices)),
       Cmd("set_pipeline", pipeline, 0),
       Cmd("set_bind_group", "camera_bind_group", 0) >>
    \o (IF textured THEN << Cmd("set_bind_group", "texture_bind_group", 1) >> ELSE <<>>)
    \o << Cmd("set_vertex_buffer", "vertex_buffer", 0),
          Cmd("set_index_buffer", "index_buffer", 0),
          Cmd("draw_indexed", "indices", quad_count * 6) >>

\* The commands flush_colored / flush_textured issue for the batch b.
flush(b, pipeline, textured) ==
    IF b.quad_count = 0 THEN <<>>
    ELSE << Cmd("write_buffer", "vertex_buffer", Len(b.vertices)),
            Cmd("set_pipeline", pipeline, 0),
            Cmd("set_bind_group", "camera_bind_group", 0) >>
         \o (IF textured THEN << Cmd("set_bind_group", "texture_bind_group", 1) >>
                         ELSE <<>>)
         \o << Cmd("set_vertex_buffer", "vertex_buffer", 0),
               Cmd("set_index_buffer", "index_buffer", 0),
               Cmd("draw_indexed", "indices", b.quad_count * 6) >>

\* The commands of flush_colored / flush_textured for the renderer's batch.
flush_commands(pipeline, textured) == flush(CurrentBatch, pipeline, textured)

\* lastCall: pos, text, number and scale are the arguments of draw_text /
\* draw_number, before is quad_count when the call began, ret the
\* returned width, gpu the commands issued.
Call(op, pos, text, number, scale, before, ret, gpu) ==
    [op |-> op, pos |-> pos, text |-> text, number |-> number, scale |-> scale,
     before |-> before, ret |-> ret, gpu |-> gpu]

\* The renderer with batch b, g glyph calls since begin and last call c.
Renderer(b, g, c) ==
    [vertices |-> b.vertices, quad_count |-> b.quad_count, quadCalls |-> b.calls,
     glyphCalls |-> g, lastCall |-> c]

\* Renderer2D::new: an empty batch.
RendererInit ==
    renderer = Renderer(Batch(<<>>, 0, 0), 0,
                        Call("new", <<0, 0>>, <<>>, 0, 0, 0, 0, <<>>))

count_glyph_call == IF glyphCalls < MaxGlyphCalls THEN glyphCalls + 1 ELSE glyphCalls

Begin ==
    /\ renderer' = Renderer(begin(CurrentBatch), 0,
                            Call("begin", <<0, 0>>, <<>>, 0, 0, quad_count, 0,
                                 << Cmd("write_buffer", "camera_buffer", 1) >>))
    /\ UNCHANGED notRenderer

DrawQuad(centre, size, rotation, color) ==
    /\ renderer' = Renderer(draw_quad(CurrentBatch, centre, size, rotation, color),
                            glyphCalls,
                            Call("draw_quad", <<0, 0>>, <<>>, 0, 0, quad_count, 0, <<>>))
    /\ UNCHANGED notRenderer

DrawSprite(centre, size, rotation, color, uv_rect) ==
    /\ renderer' = Renderer(draw_sprite(CurrentBatch, centre, size, rotation, color,
                                        uv_rect),
                            glyphCalls,
                            Call("draw_sprite", <<0, 0>>, <<>>, 0, 0, quad_count, 0, <<>>))
    /\ UNCHANGED notRenderer

DrawNumber(pos, number, scale, color) ==
    LET done == draw_number(CurrentBatch, pos, number, scale, color)
    IN  /\ renderer' = Renderer(done.batch, count_glyph_call,
                                Call("draw_number", pos, <<>>, number, scale,
                                     quad_count, done.ret, <<>>))
        /\ UNCHANGED notRenderer

DrawText(pos, text, scale, color) ==
    LET done == draw_text(CurrentBatch, pos, text, scale, color)
    IN  /\ renderer' = Renderer(done.batch, count_glyph_call,
                                Call("draw_text", pos, text, 0, scale, quad_count,
                                     done.ret, <<>>))
        /\ UNCHANGED notRenderer

\* flush_colored takes &self: the batch is only read.
FlushColored ==
    /\ renderer' = Renderer(CurrentBatch, glyphCalls,
                            Call("flush_colored", <<0, 0>>, <<>>, 0, 0, quad_count, 0,
                                 flush_commands("pipeline_colored", FALSE)))
    /\ UNCHANGED notRenderer

FlushTextured ==
    /\ renderer' = Renderer(CurrentBatch, glyphCalls,
                            Call("flush_textured", <<0, 0>>, <<>>, 0, 0, quad_count, 0,
                                 flush_commands("pipeline_textured", TRUE)))
    /\ UNCHANGED notRenderer

\* The arguments the draw methods are called with.
QuadPositions == {<<0, 0>>}
QuadSizes == {<<40, 20>>}
QuadRotations == {1}
UvRects == {<<1, 0, 2, 1>>}


\* Where, what and how large the glyph methods draw: a text is drawn at
\* scale 1 or, for two of them, at scale 2.
GlyphPositions == {<<40, 0 - 20>>}
BatchTexts == {[text |-> <<"A", ":">>, scale |-> 1]}
BatchNumbers == {[number |-> 0 - 1, scale |-> 1]}

\* The batch under every drawing method and both flushes.
BatchNext ==
    \/ Begin
    \/ \E centre \in QuadPositions, size \in QuadSizes, rotation \in QuadRotations :
           DrawQuad(centre, size, rotation, WHITE)
    \/ \E centre \in QuadPositions, size \in QuadSizes, uv_rect \in UvRects :
           DrawSprite(centre, size, 0, WHITE, uv_rect)
    \/ \E pos \in GlyphPositions, t \in BatchTexts :
           DrawText(pos, t.text, t.scale, WHITE)
    \/ \E pos \in GlyphPositions, n \in BatchNumbers :
           DrawNumber(pos, n.number, n.scale, WHITE)
    \/ FlushColored
    \/ FlushTextured

\* The characters draw_text documents (A-Z, 0-9, space, colon), the lower
\* case letters it matches, and one character outside its charset.
Letters ==
    {"A", "B", "C", "D", "E", "F", "G", "H", "I", "J", "K", "L", "M",
     "N", "O", "P", "Q", "R", "S", "T", "U", "V", "W", "X", "Y", "Z"}
Charset == Letters \cup {DigitChars[i] : i \in 1 .. 10} \cup {" ", ":"}
GlyphTexts ==
    {[text |-> <<ch>>, scale |-> 1] : ch \in Charset \cup {"f", "p", "s", "?"}}
    \cup {[text |-> <<>>, scale |-> 1],
          [text |-> <<"F", "P", "S">>, scale |-> 1],
          [text |-> <<"F", "P", "S">>, scale |-> 2],
          [text |-> <<"1", ":", " ", "A">>, scale |-> 2]}
GlyphNumbers ==
    {[number |-> n, scale |-> 1] : n \in {0 - 5, 0, 8, 17}}
    \cup {[number |-> 0 - 5, scale |-> 2], [number |-> 204, scale |-> 2]}

\* The glyph methods, up to MaxGlyphCalls calls between two begins.
GlyphNext ==
    \/ Begin
    \/ \E pos \in GlyphPositions, t \in GlyphTexts :
           glyphCalls < MaxGlyphCalls /\ DrawText(pos, t.text, t.scale, WHITE)
    \/ \E pos \in GlyphPositions, n \in GlyphNumbers :
           glyphCalls < MaxGlyphCalls /\ DrawNumber(pos, n.number, n.scale, WHITE)

----------------------------------------------------------------------------
\* Properties of the renderer batch

\* The quads a batch of n draw_quad calls with the arguments of BatchNext holds
\* when none was dropped.
OnlyPlainQuads ==
    \A i \in 1 .. Len(vertices) :
        \E centre \in QuadPositions, size \in QuadSizes, rotation \in QuadRotations :
            vertices[i] =
                quad_vertices(centre, size, rotation, WHITE, quad_uvs)[((i - 1) % 4) + 1]

\* C12: quad_count never exceeds the cap under begin, draw_quad, draw_sprite,
\* draw_text and draw_number; a draw_quad or draw_sprite issued at the cap
\* changes neither the vertex list nor quad_count; and once the draw_quad
\* invocations since begin number cap + 1 (or more), exactly cap quads are
\* held, while below the cap every invocation is held.
C12_CapNeverExceeded ==
    [][ /\ quad_count <= BatchCap
        /\ quad_count' <= BatchCap
        /\ (lastCall'.op \in {"draw_quad", "draw_sprite"} /\ quad_count = BatchCap)
               => UNCHANGED <<vertices, quad_count>>
        /\ quadCalls' > BatchCap => quad_count' = BatchCap
        /\ quadCalls' <= BatchCap => quad_count' = quadCalls' ]_rendererVars

\* Witness of C12: cap + 1 draw_quad calls after one begin, the last one
\* issued at the cap, and the cap's worth of plain quads held.
C12_Witness ==
    /\ lastCall.op = "draw_quad"
    /\ lastCall.before = BatchCap
    /\ quadCalls = BatchCap + 1
    /\ quad_count = BatchCap
    /\ Len(vertices) = 4 * BatchCap
    /\ OnlyPlainQuads

\* C13: begin leaves the vertex list empty and quad_count = 0 whatever the
\* batch held, a batch filled to the cap included, and the draw_quad or
\* draw_sprite that follows a begin is accepted: it is the batch's one quad.
C13_BeginResets ==
    [][ /\ lastCall'.op = "begin" => (vertices' = <<>> /\ quad_count' = 0)
        /\ (lastCall.op = "begin" /\ lastCall'.op \in {"draw_quad", "draw_sprite"})
               => (quad_count' = 1 /\ Len(vertices') = 4) ]_rendererVars

\* Witness of C13: begin was called on a batch filled to the cap.
C13_Witness ==
    /\ lastCall.op = "begin"
    /\ lastCall.before = BatchCap
    /\ quadCalls = 0
    /\ vertices = <<>>

\* C14: flush_colored and flush_textured issue no vertex upload and no draw
\* when quad_count = 0; otherwise exactly one upload, of the whole vertex
\* list, followed by exactly one indexed draw of the indices 0 .. 6 * quad_count,
\* which are those of every quad accepted since the last begin; a flush
\* changes neither the vertex list nor quad_count.
C14_FlushOnce ==
    [][ lastCall'.op \in {"flush_colored", "flush_textured"} =>
          LET gpu     == lastCall'.gpu
              uploads == {i \in DOMAIN gpu : gpu[i].cmd = "write_buffer"}
              draws   == {i \in DOMAIN gpu : gpu[i].cmd = "draw_indexed"}
              accepted == IF quadCalls > BatchCap THEN BatchCap ELSE quadCalls
          IN  /\ UNCHANGED <<vertices, quad_count>>
              /\ IF quad_count = 0
                 THEN gpu = <<>>
                 ELSE /\ Cardinality(uploads) = 1
                      /\ Cardinality(draws) = 1
                      /\ \A u \in uploads, d \in draws :
                             /\ u < d
                             /\ gpu[u].what = "vertex_buffer"
                             /\ gpu[u].count = Len(vertices)
                             /\ gpu[d].count = 6 * quad_count
                             /\ gpu[d].count = 6 * accepted ]_rendererVars

\* Witness of C14: a textured flush of a batch filled to the cap, after a
\* draw was dropped.
C14_Witness ==
    /\ lastCall.op = "flush_textured"
    /\ quad_count = BatchCap
    /\ quadCalls > BatchCap
    /\ Len(lastCall.gpu) > 2

\* The six indices the claim gives slot i.
SlotAsClaimed(i) ==
    /\ 6 * i + 6 \in DOMAIN indices
    /\ [k \in 1 .. 6 |-> indices[6 * i + k]] =
           << 4 * i, 4 * i + 1, 4 * i + 2, 4 * i, 4 * i + 2, 4 * i + 3 >>
    /\ 4 * i + 3 < 65536

AllSlotsAsClaimed ==
    /\ DOMAIN indices = 1 .. (6 * MAX_QUADS)
    /\ \A i \in 0 .. (MAX_QUADS - 1) : SlotAsClaimed(i)
    /\ \A k \in DOMAIN indices : indices[k] < MAX_VERTICES

\* C15: the index buffer holds, for every quad slot i in 0 .. MAX_QUADS - 1,
\* the six indices 4i, 4i+1, 4i+2, 4i, 4i+2, 4i+3; no index is changed by
\* the cast to 16 bits (4i + 3 < 65536) and every index is below
\* MAX_VERTICES; so it is for the slot of every quad of the batch.
C15_IndexBuffer ==
    /\ AllSlotsAsClaimed
    /\ \A q \in 0 .. (quad_count - 1) : SlotAsClaimed(q)

\* Witness of C15: a flush draws a full batch through the index buffer, whose
\* last slot is the last quad's.
C15_Witness ==
    /\ lastCall.op = "flush_colored"
    /\ quad_count = BatchCap
    /\ lastCall.gpu[Len(lastCall.gpu)].count <= MAX_INDICES
    /\ MAX_QUADS = 10000
    /\ indices[MAX_INDICES] = 39999

----------------------------------------------------------------------------
\* Properties of the glyph methods

\* The classic seven-segment table, segments A..G numbered 1..7.
SevenSegment(d) ==
    CASE d = 0 -> {1, 2, 3, 4, 5, 6}
      [] d = 1 -> {2, 3}
      [] d = 2 -> {1, 2, 4, 5, 7}
      [] d = 3 -> {1, 2, 3, 4, 7}
      [] d = 4 -> {2, 3, 6, 7}
      [] d = 5 -> {1, 3, 4, 6, 7}
      [] d = 6 -> {1, 3, 4, 5, 6, 7}
      [] d = 7 -> {1, 2, 3}
      [] d = 8 -> {1, 2, 3, 4, 5, 6, 7}
      [] d = 9 -> {1, 2, 3, 4, 6, 7}
      [] OTHER -> {}

\* The quad of segment k of a digit at pos.
SegmentQuad(k, pos, scale) ==
    quad_vertices(segment_centre(k, pos, scale), segment_size(k, scale), 0, WHITE,
                  quad_uvs)

\* The quads of the segments of `lit`, in the order A..G, from segment k on.
RECURSIVE SegmentQuads(_, _, _, _)
SegmentQuads(lit, k, pos, scale) ==
    IF k > 7 THEN <<>>
    ELSE (IF k \in lit THEN SegmentQuad(k, pos, scale) ELSE <<>>)
         \o SegmentQuads(lit, k + 1, pos, scale)

\* The minus bar of draw_number with the pen at x: 7.2 scale wide and 2 scale
\* high, centred in the character cell.
MinusBar(x, y, scale) ==
    quad_vertices(<<x + Fix(6, 1) * scale, y>>, <<Fix(36, 5) * scale, Fix(2, 1) * scale>>,
                  0, WHITE, quad_uvs)

\* The quads of the decimal text s from its i-th character on, left to right,
\* every character 14 scale to the right of the one before.
RECURSIVE NumberQuads(_, _, _, _)
NumberQuads(s, i, pos, scale) ==
    IF i > Len(s) THEN <<>>
    ELSE LET x == pos[1] + (i - 1) * Fix(14, 1) * scale
         IN  (IF s[i] = "-" THEN MinusBar(x, pos[2], scale)
              ELSE SegmentQuads(SevenSegment(to_digit(s[i])), 1, <<x, pos[2]>>, scale))
             \o NumberQuads(s, i + 1, pos, scale)

\* The vertices the last call appended.
Appended == SubSeq(vertices, 4 * lastCall.before + 1, Len(vertices))

\* The first n quads of a vertex list, or all of it.
FirstQuads(vs, n) == SubSeq(vs, 1, IF 4 * n < Len(vs) THEN 4 * n ELSE Len(vs))

\* C16: draw_number appends the quads of the number's decimal text from left
\* to right, one quad for a leading '-' and for each digit one quad per active
\* segment in the order A..G, as far as the batch has room; for -5 with room
\* these are 6 quads: the minus bar, then A, C, D, F, G of the digit.
C16_NumberQuads ==
    lastCall.op = "draw_number" =>
        LET expected == NumberQuads(format(lastCall.number), 1, lastCall.pos,
                                    lastCall.scale)
            room     == BatchCap - lastCall.before
        IN  /\ Appended = FirstQuads(expected, room)
            /\ (lastCall.number = 0 - 5 /\ room >= 6) =>
                   /\ quad_count = lastCall.before + 6
                   /\ Appended =
                          MinusBar(lastCall.pos[1], lastCall.pos[2], lastCall.scale)
                          \o SegmentQuads({1, 3, 4, 6, 7}, 1,
                                          <<lastCall.pos[1] + Fix(14, 1) * lastCall.scale,
                                            lastCall.pos[2]>>,
                                          lastCall.scale)

\* Witness of C16: draw_number(-5) has appended its 6 quads to a batch that
\* was not empty.
C16_Witness ==
    /\ lastCall.op = "draw_number"
    /\ lastCall.number = 0 - 5
    /\ lastCall.before > 0
    /\ quad_count = lastCall.before + 6

\* C17: draw_digit_segments lights for each digit the segments of the classic
\* table (0:ABCDEF 1:BC 2:ABDEG 3:ABCDG 4:BCFG 5:ACDFG 6:ACDEFG 7:ABC
\* 8:ABCDEFG 9:ABCDFG) and none for any other u8 value; called on the batch
\* of any reachable state it appends exactly the quads of the lit segments, as
\* far as the batch has room, and so does the draw_text of a single digit.
C17_SegmentTable ==
    /\ \A d \in 0 .. 255 : {k \in 1 .. 7 : segments(d)[k]} = SevenSegment(d)
    /\ \A d \in (0 .. 10) \cup {255}, pos \in GlyphPositions :
           LET after == draw_digit_segments(CurrentBatch, pos, d, 1, WHITE)
               lit   == IF d \in 0 .. 9 THEN SegmentQuads(SevenSegment(d), 1, pos, 1)
                        ELSE <<>>
           IN  /\ after.vertices = vertices \o FirstQuads(lit, BatchCap - quad_count)
               /\ 4 * after.quad_count = Len(after.vertices)
    /\ (lastCall.op = "draw_text" /\ Len(lastCall.text) = 1
            /\ to_digit(lastCall.text[1]) # NoDigit) =>
           /\ Appended =
                  FirstQuads(SegmentQuads(SevenSegment(to_digit(lastCall.text[1])), 1,
                                          lastCall.pos, lastCall.scale),
                             BatchCap - lastCall.before)
           /\ 4 * quad_count = Len(vertices)

\* Witness of C17: the digit 8 has been drawn with all seven segments.
C17_Witness ==
    /\ lastCall.op = "draw_text"
    /\ lastCall.text = << "8" >>
    /\ quad_count = lastCall.before + 7
    /\ Appended = SegmentQuads({1, 2, 3, 4, 5, 6, 7}, 1, lastCall.pos, lastCall.scale)

\* C18: draw_text of a text of n >= 1 characters returns
\* n * (12 scale + 3 scale) - 3 scale and draw_number of a number whose
\* decimal text has n characters returns n * (12 scale + 2 scale) - 2 scale,
\* whatever the characters are and however many quads the cap dropped.
C18_Widths ==
    /\ (lastCall.op = "draw_text" /\ Len(lastCall.text) >= 1) =>
           lastCall.ret =
               Len(lastCall.text) * (Fix(12, 1) * lastCall.scale + Fix(3, 1) * lastCall.scale)
               - Fix(3, 1) * lastCall.scale
    /\ lastCall.op = "draw_number" =>
           lastCall.ret =
               Len(format(lastCall.number))
                   * (Fix(12, 1) * lastCall.scale + Fix(2, 1) * lastCall.scale)
               - Fix(2, 1) * lastCall.scale

\* Witness of C18: a text of several characters drawn at scale 2 into a batch
\* that dropped some of its quads at the cap.
C18_Witness ==
    /\ lastCall.op = "draw_text"
    /\ Len(lastCall.text) >= 3
    /\ lastCall.scale = 2
    /\ quad_count = BatchCap
    /\ quadCalls > BatchCap
    /\ lastCall.ret = Fix(3 * 30 - 6, 1)

\* The placeholder of draw_text for an unknown character with the pen at x:
\* a translucent box 9.6 scale wide and 20 scale high.
PlaceholderBox(x, y, scale) ==
    quad_vertices(<<x + Fix(6, 1) * scale, y>>, <<Fix(48, 5) * scale, Fix(20, 1) * scale>>,
                  0, with_alpha(WHITE, 30), quad_uvs)

\* C19: draw_text renders every character of its documented charset (A-Z,
\* 0-9, space, colon) with a glyph of its own: no quad a text of such
\* characters appends is the placeholder box of its character cell.
C19_CharsetHasGlyphs ==
    (lastCall.op = "draw_text"
         /\ \A i \in 1 .. Len(lastCall.text) : lastCall.text[i] \in Charset) =>
        \A q \in 0 .. ((Len(Appended) \div 4) - 1), i \in 1 .. Len(lastCall.text) :
            SubSeq(Appended, 4 * q + 1, 4 * q + 4) #
                PlaceholderBox(lastCall.pos[1] + (i - 1) * Fix(15, 1) * lastCall.scale,
                               lastCall.pos[2], lastCall.scale)

\* The quads one character of a text stands for: none for a space, 2 for a
\* colon, 3 for F, 4 for P, 5 for S, the lit segments of a digit (6 2 5 5 4
\* 5 6 3 7 6 for 0..9), and the one box of any other character.
IsBoxed(ch) ==
    /\ ch \notin {" ", ":", "F", "f", "P", "p", "S", "s"}
    /\ ch \notin {DigitChars[i] : i \in 1 .. 10}
QuadsOf(ch) ==
    CASE ch = " " -> 0
      [] ch = ":" -> 2
      [] ch \in {"F", "f"} -> 3
      [] ch \in {"P", "p"} -> 4
      [] ch \in {"S", "s"} -> 5
      [] ch \in {DigitChars[i] : i \in 1 .. 10} ->
             <<6, 2, 5, 5, 4, 5, 6, 3, 7, 6>>[to_digit(ch) + 1]
      [] OTHER -> 1

RECURSIVE QuadsOfText(_)
QuadsOfText(text) ==
    IF text = <<>> THEN 0 ELSE QuadsOf(text[1]) + QuadsOfText(Tail(text))

\* A text with f, p and s in upper case.
Upper(text) ==
    [i \in DOMAIN text |->
        CASE text[i] = "f" -> "F" [] text[i] = "p" -> "P" [] text[i] = "s" -> "S"
          [] OTHER -> text[i]]

C34_NonNegativeWidth ==
    /\ (lastCall.op \in {"draw_text", "draw_number"} /\ lastCall.scale >= 0) =>
           lastCall.ret >= 0
    /\ (lastCall.op = "draw_text" /\ lastCall.text = <<>>) =>
           /\ Appended = <<>>
           /\ quad_count = lastCall.before
           /\ lastCall.ret = 0

\* C30: the vertex list holds exactly 4 * quad_count vertices in every
\* reachable state; a draw_quad or draw_sprite below the cap appends four
\* vertices to those held and adds one to quad_count, one at the cap changes
\* neither; each of the 6 * quad_count indices a flush draws is the number of
\* a vertex of the list.
C30_FourVerticesPerQuad ==
    [][ /\ Len(vertices) = 4 * quad_count
        /\ Len(vertices') = 4 * quad_count'
        /\ lastCall'.op \in {"draw_quad", "draw_sprite"} =>
              IF quad_count < BatchCap
              THEN /\ Len(vertices') = Len(vertices) + 4
                   /\ SubSeq(vertices', 1, Len(vertices)) = vertices
                   /\ quad_count' = quad_count + 1
              ELSE UNCHANGED <<vertices, quad_count>>
        /\ lastCall'.op \in {"flush_colored", "flush_textured"} =>
              \A d \in DOMAIN lastCall'.gpu :
                  lastCall'.gpu[d].cmd = "draw_indexed" =>
                      /\ lastCall'.gpu[d].count = 6 * quad_count'
                      /\ \A q \in 0 .. (quad_count' - 1) : \A k \in 1 .. 6 :
                             quad_indices(q)[k] < Len(vertices') ]_rendererVars

\* Witness of C30: a flush has drawn a batch that holds sprites and quads, a
\* further draw_sprite at the cap having been dropped.
C30_Witness ==
    /\ lastCall.op = "flush_colored"
    /\ lastCall.gpu # <<>>
    /\ quad_count = BatchCap
    /\ quadCalls > BatchCap
    /\ Len(vertices) = 4 * BatchCap
    /\ ~OnlyPlainQuads

----------------------------------------------------------------------------
(***************************************************************************)
(* The input state (src/src/input/mod.rs): the level sets, the per-frame   *)
(* edge sets and the mouse.  The event callbacks and begin_frame are the   *)
(* actions; mouse coordinates are whole numbers, which f32 subtracts       *)
(* exactly.                                                                *)
(***************************************************************************)

\* The keys and buttons events are delivered for, the positions the mouse is
\* moved to and the scroll amounts.
Keys == {"KeyW", "KeyS"}
MouseButtons == {"Left"}
MousePoints == {<<3, 4>>, <<10, 0 - 2>>}
ScrollDeltas == {<<0, 1>>}

\* Vec2::ZERO and Vec2's subtraction.
ZERO == <<0, 0>>
Vec2_sub(a, b) == <<a[1] - b[1], a[2] - b[2]>>

\* The last call made on the Input: the method, its key or button, and whether
\* that key or button was down when the call was made.
InputCall(op, arg, held) == [op |-> op, arg |-> arg, held |-> held]

\* The call c was method op on key or button arg.
Called(c, op, arg) == c.op = op /\ c.arg = arg

\* Input::new: Default of every field.
InputInit ==
    input = [keys_down |-> {}, keys_pressed |-> {}, keys_released |-> {},
             mouse_buttons_down |-> {}, mouse_buttons_pressed |-> {},
             mouse_buttons_released |-> {}, mouse_position |-> ZERO,
             mouse_delta |-> ZERO, scroll_delta |-> ZERO,
             prev_mouse_position |-> ZERO, lastInput |-> InputCall("new", "-", FALSE)]

\* Mutant of BeginFrame: prev_mouse_position is not brought up to date.
BeginFrame_NoSnapshot ==
    /\ input' = [input EXCEPT
                    !.keys_pressed = {},
                    !.keys_released = {},
                    !.mouse_buttons_pressed = {},
                    !.mouse_buttons_released = {},
                    !.scroll_delta = ZERO,
                    !.mouse_delta = Vec2_sub(mouse_position, prev_mouse_position),
                    !.lastInput = InputCall("begin_frame", "-", FALSE)]
    /\ UNCHANGED notInput

\* Input::begin_frame, on an Input i.
begin_frame(i) ==
    [i EXCEPT !.keys_pressed = {},
              !.keys_released = {},
              !.mouse_buttons_pressed = {},
              !.mouse_buttons_released = {},
              !.scroll_delta = ZERO,
              !.mouse_delta = Vec2_sub(i.mouse_position, i.prev_mouse_position),
              !.prev_mouse_position = i.mouse_position,
              !.lastInput = InputCall("begin_frame", "-", FALSE)]

BeginFrame ==
    /\ input' = begin_frame(input)
    /\ UNCHANGED notInput

\* Mutant of OnKeyPressed: the edge is raised whether or not the key is down.
OnKeyPressed_NoGuard(key) ==
    /\ input' = [input EXCEPT
                    !.keys_pressed = keys_pressed \cup {key},
                    !.keys_down = keys_down \cup {key},
                    !.lastInput = InputCall("on_key_pressed", key, key \in keys_down)]
    /\ UNCHANGED notInput

\* Input::on_key_pressed
on_key_pressed(i, key) ==
    [i EXCEPT !.keys_pressed = IF key \notin i.keys_down
                               THEN i.keys_pressed \cup {key}
                               ELSE i.keys_pressed,
              !.keys_down = i.keys_down \cup {key},
              !.lastInput = InputCall("on_key_pressed", key, key \in i.keys_down)]

OnKeyPressed(key) ==
    /\ input' = on_key_pressed(input, key)
    /\ UNCHANGED notInput

\* Mutant of OnKeyReleased: the edge is raised only for a key that was down.
OnKeyReleased_OnlyIfDown(key) ==
    /\ input' = [input EXCEPT
                    !.keys_down = keys_down \ {key},
                    !.keys_released = IF key \in keys_down
                                      THEN keys_released \cup {key}
                                      ELSE keys_released,
                    !.lastInput = InputCall("on_key_released", key, key \in keys_down)]
    /\ UNCHANGED notInput

\* Input::on_key_released
on_key_released(i, key) ==
    [i EXCEPT !.keys_down = i.keys_down \ {key},
              !.keys_released = i.keys_released \cup {key},
              !.lastInput = InputCall("on_key_released", key, key \in i.keys_down)]

OnKeyReleased(key) ==
    /\ input' = on_key_released(input, key)
    /\ UNCHANGED notInput

\* Input::on_mouse_button_pressed
on_mouse_button_pressed(i, button) ==
    [i EXCEPT !.mouse_buttons_pressed =
                  IF button \notin i.mouse_buttons_down
                  THEN i.mouse_buttons_pressed \cup {button}
                  ELSE i.mouse_buttons_pressed,
              !.mouse_buttons_down = i.mouse_buttons_down \cup {button},
              !.lastInput = InputCall("on_mouse_button_pressed", button,
                                      button \in i.mouse_buttons_down)]

OnMouseButtonPressed(button) ==
    /\ input' = on_mouse_button_pressed(input, button)
    /\ UNCHANGED notInput

\* Input::on_mouse_button_released
on_mouse_button_released(i, button) ==
    [i EXCEPT !.mouse_buttons_down = i.mouse_buttons_down \ {button},
              !.mouse_buttons_released = i.mouse_buttons_released \cup {button},
              !.lastInput = InputCall("on_mouse_button_released", button,
                                      button \in i.mouse_buttons_down)]

OnMouseButtonReleased(button) ==
    /\ input' = on_mouse_button_released(input, button)
    /\ UNCHANGED notInput

\* Input::on_mouse_moved
on_mouse_moved(i, x, y) ==
    [i EXCEPT !.mouse_position = <<x, y>>,
              !.lastInput = InputCall("on_mouse_moved", "-", FALSE)]

OnMouseMoved(x, y) ==
    /\ input' = on_mouse_moved(input, x, y)
    /\ UNCHANGED notInput

\* Input::on_scroll
on_scroll(i, x, y) ==
    [i EXCEPT !.scroll_delta = <<x, y>>,
              !.lastInput = InputCall("on_scroll", "-", FALSE)]

OnScroll(x, y) ==
    /\ input' = on_scroll(input, x, y)
    /\ UNCHANGED notInput

InputNext ==
    \/ BeginFrame
    \/ \E key \in Keys : OnKeyPressed(key)
    \/ \E key \in Keys : OnKeyReleased(key)
    \/ \E button \in MouseButtons : OnMouseButtonPressed(button)
    \/ \E button \in MouseButtons : OnMouseButtonReleased(button)
    \/ \E p \in MousePoints : OnMouseMoved(p[1], p[2])
    \/ \E d \in ScrollDeltas : OnScroll(d[1], d[2])

\* C20: begin_frame empties the four edge sets, zeroes scroll_delta, sets
\* mouse_delta to mouse_position - prev_mouse_position and then
\* prev_mouse_position to mouse_position, and leaves keys_down,
\* mouse_buttons_down and mouse_position as they were; a begin_frame that
\* follows a begin_frame with no event in between leaves mouse_delta zero.
C20_BeginFrame ==
    [][ lastInput'.op = "begin_frame" =>
          /\ keys_pressed' = {}
          /\ keys_released' = {}
          /\ mouse_buttons_pressed' = {}
          /\ mouse_buttons_released' = {}
          /\ scroll_delta' = ZERO
          /\ mouse_delta' = Vec2_sub(mouse_position, prev_mouse_position)
          /\ prev_mouse_position' = mouse_position
          /\ UNCHANGED <<keys_down, mouse_buttons_down, mouse_position>>
          /\ lastInput.op = "begin_frame" => mouse_delta' = ZERO ]_inputVars

\* Witness of C20: a second begin_frame in a row, with a key and a button
\* held and the mouse away from the origin, has brought mouse_delta to zero.
C20_Witness ==
    /\ lastInput.op = "begin_frame"
    /\ keys_down # {}
    /\ mouse_buttons_down # {}
    /\ mouse_position # ZERO
    /\ prev_mouse_position = mouse_position
    /\ mouse_delta = ZERO
    /\ keys_pressed = {} /\ keys_released = {}

\* Input::key_down, Input::key_pressed, Input::key_released and the mouse
\* button queries: membership in the set of the same name.
key_down(key) == key \in keys_down
key_pressed(key) == key \in keys_pressed
key_released(key) == key \in keys_released
mouse_button_down(button) == button \in mouse_buttons_down
mouse_button_pressed(button) == button \in mouse_buttons_pressed
mouse_button_released(button) == button \in mouse_buttons_released

\* C21: on_key_pressed(k) for a key that is already down leaves keys_pressed
\* as it was; key_pressed(k) turns from false to true only by an
\* on_key_pressed(k) that finds k up, and k stops being down only by
\* on_key_released(k): once begin_frame has cleared the edge of a held key it
\* stays false until the key is released and pressed again.  The same holds
\* of the mouse buttons.
C21_RepeatRaisesNoEdge ==
    [][ /\ (lastInput'.op = "on_key_pressed" /\ key_down(lastInput'.arg))
            => keys_pressed' = keys_pressed
        /\ \A k \in Keys :
            /\ (~key_pressed(k) /\ key_pressed(k)')
                => (~key_down(k) /\ Called(lastInput', "on_key_pressed", k))
            /\ (key_down(k) /\ ~key_down(k)')
                => Called(lastInput', "on_key_released", k)
        /\ (lastInput'.op = "on_mouse_button_pressed"
                /\ mouse_button_down(lastInput'.arg))
            => mouse_buttons_pressed' = mouse_buttons_pressed
        /\ \A b \in MouseButtons :
            /\ (~mouse_button_pressed(b) /\ mouse_button_pressed(b)')
                => (~mouse_button_down(b)
                    /\ Called(lastInput', "on_mouse_button_pressed", b))
            /\ (mouse_button_down(b) /\ ~mouse_button_down(b)')
                => Called(lastInput', "on_mouse_button_released", b)
      ]_inputVars

\* Witness of C21: a press event has just been delivered for a key that was
\* held across a begin_frame, and the edge has stayed down.
C21_Witness ==
    /\ lastInput.op = "on_key_pressed"
    /\ lastInput.held
    /\ key_down(lastInput.arg)
    /\ ~key_pressed(lastInput.arg)
    /\ mouse_buttons_down # {}
    /\ mouse_buttons_pressed = {}

\* C22 as stated: between an on_key_released(k) and the next begin_frame,
\* key_released(k) is true and key_down(k) is false.  keys_released holds
\* exactly the keys released since the last begin_frame, so the statement is
\* that no key of keys_released is down.
C22_ReleasedStaysUp ==
    \A k \in Keys : key_released(k) => ~key_down(k)

\* C22, amended: on_key_released(k) makes key_released(k) true and
\* key_down(k) false whether or not k was down; key_released(k) then stays
\* true until the next begin_frame, and key_down(k) stays false until the
\* next on_key_pressed(k).
C22_ReleaseMarksEdge ==
    [][ \A k \in Keys :
          /\ Called(lastInput', "on_key_released", k)
                => (key_released(k)' /\ ~key_down(k)')
          /\ (key_released(k) /\ lastInput'.op # "begin_frame")
                => key_released(k)'
          /\ (~key_down(k) /\ key_down(k)')
                => Called(lastInput', "on_key_pressed", k)
      ]_inputVars

\* Witness of C22: on_key_released has just been called for a key that was
\* not down, and the key is marked released.
C22_Witness ==
    /\ lastInput.op = "on_key_released"
    /\ ~lastInput.held
    /\ key_released(lastInput.arg)
    /\ ~key_down(lastInput.arg)

----------------------------------------------------------------------------
(***************************************************************************)
(* Input::get_movement_input.  A component of the direction is a whole     *)
(* number of thousandths; the square root and the division of              *)
(* Vec2::normalize round down to a thousandth where f32 rounds to the      *)
(* nearest value it can hold.                                              *)
(***************************************************************************)

\* The eight keys get_movement_input reads.
DirectionKeys == {"KeyW", "ArrowUp", "KeyS", "ArrowDown",
                  "KeyA", "ArrowLeft", "KeyD", "ArrowRight"}

\* n as thousandths.
Milli(n) == 1000 * n

\* f32::sqrt of the thousandths-squared n, in thousandths.
sqrt(n) == CHOOSE r \in 0 .. Milli(2) : r * r <= n /\ n < (r + 1) * (r + 1)

\* Vec2::length_squared (in millionths) and Vec2::length
length_squared(v) == v[1] * v[1] + v[2] * v[2]
length(v) == sqrt(v[1] * v[1] + v[2] * v[2])

\* Vec2::normalize
normalize(v) ==
    LET len == length(v)
    IN  IF len > 0
        THEN <<(Milli(1) * v[1]) \div len, (Milli(1) * v[2]) \div len>>
        ELSE ZERO

\* The direction get_movement_input has summed before it normalises, for
\* the keys `down`; the mutant lets each key of a direction count.
summed_direction_PerKey(down) ==
    LET count(ks) == Milli(Cardinality(ks \cap down))
    IN  <<count({"KeyD", "ArrowRight"}) - count({"KeyA", "ArrowLeft"}),
          count({"KeyW", "ArrowUp"}) - count({"KeyS", "ArrowDown"})>>

summed_direction(down) ==
    LET one(ks) == IF ks \cap down # {} THEN Milli(1) ELSE 0
    IN  <<one({"KeyD", "ArrowRight"}) - one({"KeyA", "ArrowLeft"}),
          one({"KeyW", "ArrowUp"}) - one({"KeyS", "ArrowDown"})>>

\* Input::get_movement_input: the value returned, with the summed direction
\* and whether normalize was called on it.
get_movement_input(down) ==
    LET dir == summed_direction(down)
    IN  IF length_squared(dir) > 0
        THEN [dir |-> dir, normalized |-> TRUE, ret |-> normalize(dir)]
        ELSE [dir |-> dir, normalized |-> FALSE, ret |-> dir]

\* An Input in which the keys `down` are held and a frame has begun.
HeldInput(down) ==
    [keys_down |-> down, keys_pressed |-> {}, keys_released |-> {},
     mouse_buttons_down |-> {}, mouse_buttons_pressed |-> {},
     mouse_buttons_released |-> {}, mouse_position |-> ZERO,
     mouse_delta |-> ZERO, scroll_delta |-> ZERO,
     prev_mouse_position |-> ZERO,
     lastInput |-> InputCall("begin_frame", "-", FALSE)]

MovementInit == \E down \in SUBSET DirectionKeys : input = HeldInput(down)

\* A call of get_movement_input: the Input is read, not changed.
GetMovementInput ==
    /\ lastInput.op # "get_movement_input"
    /\ input' = [input EXCEPT
                    !.lastInput = InputCall("get_movement_input",
                                            get_movement_input(keys_down), FALSE)]
    /\ UNCHANGED notInput

MovementNext == GetMovementInput

\* The keys of `down` with every arrow key replaced by its letter key.
Letter(key) ==
    CASE key = "ArrowUp" -> "KeyW"
      [] key = "ArrowDown" -> "KeyS"
      [] key = "ArrowLeft" -> "KeyA"
      [] key = "ArrowRight" -> "KeyD"
      [] OTHER -> key
Letters_of(down) == {Letter(key) : key \in down}

\* v has length one, to the three thousandths that rounding can cost.
UnitLength(v) ==
    /\ length_squared(v) <= (Milli(1) + 3) * (Milli(1) + 3)
    /\ length_squared(v) >= (Milli(1) - 3) * (Milli(1) - 3)

\* C24: get_movement_input returns the zero vector when no directional key is
\* down and when the held keys cancel on both axes; holding both keys of a
\* direction gives what holding one of them gives; the value returned is the
\* zero vector or has unit length; normalize is never called on the zero
\* vector.
C24_MovementInput ==
    lastInput.op = "get_movement_input" =>
        LET r == lastInput.arg
            up == {"KeyW", "ArrowUp"} \cap keys_down # {}
            dn == {"KeyS", "ArrowDown"} \cap keys_down # {}
            lt == {"KeyA", "ArrowLeft"} \cap keys_down # {}
            rt == {"KeyD", "ArrowRight"} \cap keys_down # {}
        IN  /\ keys_down \cap DirectionKeys = {} => r.ret = ZERO
            /\ ((up <=> dn) /\ (lt <=> rt)) <=> r.ret = ZERO
            /\ r.ret = get_movement_input(Letters_of(keys_down)).ret
            /\ r.ret = ZERO \/ UnitLength(r.ret)
            /\ r.normalized => r.dir # ZERO
            /\ (up /\ ~dn) => r.ret[2] > 0
            /\ (dn /\ ~up) => r.ret[2] < 0
            /\ (rt /\ ~lt) => r.ret[1] > 0
            /\ (lt /\ ~rt) => r.ret[1] < 0

\* Witness of C24: with W, ArrowUp and D held the value returned is the
\* diagonal of unit length, 0.707 on each axis.
C24_Witness ==
    /\ lastInput.op = "get_movement_input"
    /\ keys_down = {"KeyW", "ArrowUp", "KeyD"}
    /\ lastInput.arg.ret = <<707, 707>>

----------------------------------------------------------------------------
(***************************************************************************)
(* Camera2D (src/src/render/camera.rs).  An f32 is a fraction <<n, d>> in  *)
(* lowest terms with d >= 0: d > 0 is the number n / d, <<1, 0>> and       *)
(* <<-1, 0>> are the infinities and <<0, 0>> is NaN.  The arithmetic is    *)
(* exact: f32 rounding and the sign of zero are not modelled.              *)
(***************************************************************************)

RECURSIVE gcd(_, _)
gcd(a, b) == IF b = 0 THEN a ELSE gcd(b, a % b)

abs(n) == IF n < 0 THEN 0 - n ELSE n
sgn(n) == IF n < 0 THEN 0 - 1 ELSE IF n > 0 THEN 1 ELSE 0

\* The f32 n / d.
F32(n, d) ==
    IF d = 0 THEN <<sgn(n), 0>>
    ELSE LET g == gcd(abs(n), abs(d))
         IN  <<(sgn(d) * n) \div g, abs(d) \div g>>

NaN == <<0, 0>>

\* f32's *, /, + and -.
f32_mul(a, b) == F32(a[1] * b[1], a[2] * b[2])
f32_div(a, b) == f32_mul(a, <<sgn(b[1]) * b[2], abs(b[1])>>)
f32_add(a, b) ==
    IF a[2] = 0 /\ b[2] = 0
    THEN IF a = b THEN a ELSE NaN
    ELSE F32(a[1] * b[2] + b[1] * a[2], a[2] * b[2])
f32_sub(a, b) == f32_add(a, <<0 - b[1], b[2]>>)

\* The viewport sizes, positions, zooms, rotations and screen points used.
ViewportSizes == {<<F32(1280, 1), F32(720, 1)>>, <<F32(3, 1), F32(7, 1)>>,
                  <<F32(0, 1), F32(0, 1)>>}
CameraPositions == {<<F32(0 - 5, 1), F32(1, 3)>>}
Zooms == {F32(2, 1), F32(0 - 1, 2), F32(0, 1)}
Rotations == {F32(1, 2)}
ScreenPoints == {<<F32(0, 1), F32(0, 1)>>, <<F32(3, 1), F32(4, 1)>>,
                 <<F32(0 - 1, 1), F32(721, 2)>>}

CameraCall(op, arg, ret, origin) ==
    [op |-> op, arg |-> arg, ret |-> ret, origin |-> origin]

\* impl Default for Camera2D and Camera2D::new
Camera2D_new(viewport_width, viewport_height) ==
    [position |-> <<F32(0, 1), F32(0, 1)>>, zoom |-> F32(1, 1),
     rotation |-> F32(0, 1),
     viewport_size |-> <<viewport_width, viewport_height>>,
     lastCamera |-> CameraCall("new", <<>>, <<>>, <<>>)]

\* half_w and half_h of screen_to_world and world_to_screen.
half(c) ==
    <<f32_div(f32_div(c.viewport_size[1], F32(2, 1)), c.zoom),
      f32_div(f32_div(c.viewport_size[2], F32(2, 1)), c.zoom)>>

\* Camera2D::screen_to_world
screen_to_world(c, screen_pos) ==
    LET normalized ==
            <<f32_sub(f32_mul(f32_div(screen_pos[1], c.viewport_size[1]), F32(2, 1)),
                      F32(1, 1)),
              f32_sub(F32(1, 1),
                      f32_mul(f32_div(screen_pos[2], c.viewport_size[2]), F32(2, 1)))>>
    IN  <<f32_add(f32_mul(normalized[1], half(c)[1]), c.position[1]),
          f32_add(f32_mul(normalized[2], half(c)[2]), c.position[2])>>

\* Mutant of world_to_screen: the y axis is not turned back over.
world_to_screen_NoFlip(c, world_pos) ==
    LET normalized ==
            <<f32_div(f32_sub(world_pos[1], c.position[1]), half(c)[1]),
              f32_div(f32_sub(world_pos[2], c.position[2]), half(c)[2])>>
    IN  <<f32_mul(f32_mul(f32_add(normalized[1], F32(1, 1)), F32(1, 2)),
                  c.viewport_size[1]),
          f32_mul(f32_mul(f32_add(normalized[2], F32(1, 1)), F32(1, 2)),
                  c.viewport_size[2])>>

\* Camera2D::world_to_screen
world_to_screen(c, world_pos) ==
    LET normalized ==
            <<f32_div(f32_sub(world_pos[1], c.position[1]), half(c)[1]),
              f32_div(f32_sub(world_pos[2], c.position[2]), half(c)[2])>>
    IN  <<f32_mul(f32_mul(f32_add(normalized[1], F32(1, 1)), F32(1, 2)),
                  c.viewport_size[1]),
          f32_mul(f32_mul(f32_sub(F32(1, 1), normalized[2]), F32(1, 2)),
                  c.viewport_size[2])>>

CameraInit == \E size \in ViewportSizes : camera = Camera2D_new(size[1], size[2])

\* Camera2D::set_viewport, on a camera c.
set_viewport(c, width, height) ==
    [c EXCEPT !.viewport_size = <<width, height>>,
              !.lastCamera = CameraCall("set_viewport", <<width, height>>, <<>>, <<>>)]

SetViewport(width, height) ==
    /\ camera' = set_viewport(camera, width, height)
    /\ UNCHANGED notCamera

\* An assignment to one of the public fields position, zoom and rotation.
SetPosition(p) ==
    /\ camera' = [camera EXCEPT !.position = p,
                                !.lastCamera = CameraCall("position", p, <<>>, <<>>)]
    /\ UNCHANGED notCamera

SetZoom(z) ==
    /\ camera' = [camera EXCEPT !.zoom = z,
                                !.lastCamera = CameraCall("zoom", z, <<>>, <<>>)]
    /\ UNCHANGED notCamera

SetRotation(r) ==
    /\ camera' = [camera EXCEPT !.rotation = r,
                                !.lastCamera = CameraCall("rotation", r, <<>>, <<>>)]
    /\ UNCHANGED notCamera

\* A call of screen_to_world.
ScreenToWorld(p) ==
    /\ camera' = [camera EXCEPT
                    !.lastCamera = CameraCall("screen_to_world", p,
                                              screen_to_world(camera, p), <<>>)]
    /\ UNCHANGED notCamera

\* A call of world_to_screen on what the screen_to_world before it returned;
\* origin is the screen point that call was given.
WorldToScreen ==
    /\ lastCamera.op = "screen_to_world"
    /\ camera' = [camera EXCEPT
                    !.lastCamera = CameraCall("world_to_screen", lastCamera.ret,
                                              world_to_screen(camera, lastCamera.ret),
                                              lastCamera.arg)]
    /\ UNCHANGED notCamera

CameraNext ==
    \/ \E size \in ViewportSizes : SetViewport(size[1], size[2])
    \/ \E p \in CameraPositions : SetPosition(p)
    \/ \E z \in Zooms : SetZoom(z)
    \/ \E r \in Rotations : SetRotation(r)
    \/ \E p \in ScreenPoints : ScreenToWorld(p)
    \/ WorldToScreen

\* C28: for a camera whose viewport width, viewport height and zoom are not
\* zero and whose rotation is zero, at any position,
\* world_to_screen(screen_to_world(p)) = p for every screen point p, in exact
\* arithmetic.
C28_RoundTrip ==
    ( /\ lastCamera.op = "world_to_screen"
      /\ camera.viewport_size[1] # F32(0, 1)
      /\ camera.viewport_size[2] # F32(0, 1)
      /\ camera.zoom # F32(0, 1)
      /\ camera.rotation = F32(0, 1) )
        => lastCamera.ret = lastCamera.origin

\* Witness of C28: a screen point off the origin has come back through a
\* camera that is away from the origin, zoomed and not square.
C28_Witness ==
    /\ lastCamera.op = "world_to_screen"
    /\ camera.viewport_size = <<F32(3, 1), F32(7, 1)>>
    /\ camera.zoom = F32(0 - 1, 2)
    /\ camera.rotation = F32(0, 1)
    /\ camera.position = <<F32(0 - 5, 1), F32(1, 3)>>
    /\ lastCamera.origin = <<F32(0 - 1, 1), F32(721, 2)>>
    /\ lastCamera.ret = lastCamera.origin
    /\ lastCamera.arg # lastCamera.origin

----------------------------------------------------------------------------
(***************************************************************************)
(* The event loop (src/src/lib.rs): AppRunner::resumed builds the          *)
(* RenderState, the Engine and the application; AppRunner::window_event is *)
(* called by winit for one event at a time and runs to its end, so each    *)
(* event is one action.  The application is the one of the module's Quick  *)
(* Start, with callbacks that read the engine and leave it as it is.       *)
(* Time is not kept: Time::update appears only as a call.                  *)
(***************************************************************************)

\* The window's size at start-up and the sizes it is resized to (a minimised
\* window has size 0 x 0).
WindowSize == <<640, 480>>
ResizedTo == {<<0, 0>>, <<800, 600>>}

\* The key codes of keyboard events; the mouse buttons of winit (Back is one
\* the engine does not know); what Surface::get_current_texture returns.
KeyCodes == {"KeyW", "Escape"}
WinitButtons == {"Left", "Back"}
CursorPoints == {<<3, 4>>}
WheelDeltas == {<<0, 1>>}
SurfaceResults == {"Ok", "Lost", "OutOfMemory", "Outdated"}

\* Transform2D and Sprite values of the components c1 and c2.
transform2d(v) ==
    IF v = "c1" THEN [position |-> <<0, 0>>, rotation |-> 0, scale |-> <<1, 1>>]
    ELSE [position |-> <<40, 20>>, rotation |-> 1, scale |-> <<2, 1>>]
sprite(v) ==
    IF v = "c1" THEN [color |-> WHITE, size |-> <<40, 20>>, uv_rect |-> <<0, 0, 1, 1>>]
    ELSE [color |-> with_alpha(WHITE, 30), size |-> <<20, 20>>, uv_rect |-> <<1, 0, 2, 1>>]

\* A::init of the Quick Start: one entity with a Transform2D and a Sprite.
AppInit ==
    /\ next_entity_id = 1
    /\ entities = <<0>>
    /\ dead_entities = <<>>
    /\ components = [T \in {"Transform2D", "Sprite"} |->
                        Storage_insert(Storage_new(T), 0, "c1")]
    /\ addCalled = {"Transform2D", "Sprite"}
    /\ lastOp = Op("add", 0, "Sprite", "c1", FALSE, 0)

\* AppRunner after resumed: the surface configuration holds the window's
\* size and the surface is not configured yet.  event, key, error, calls,
\* configured, began_with, seen and inside describe the last event handled:
\* the calls its handler made in order, the sizes it configured the surface
\* with, the viewport of the camera given to Renderer2D::begin, the edges
\* Application::update saw, and key_down(key) inside the key callback.
\* pressedSince / releasedSince: the keys a press event took from up to down
\* (a release event from down to up) since the last Application::update.
\* app is the application: the quads its render draws, none for the Quick
\* Start's, which keeps the trait's default render.
Resumed ==
    [config |-> WindowSize, is_surface_configured |-> FALSE, exiting |-> FALSE,
     app |-> <<>>,
     event |-> "resumed", key |-> "-", error |-> "none", calls |-> <<>>,
     configured |-> <<>>, began_with |-> <<>>,
     seen |-> [pressed |-> {}, released |-> {}], inside |-> FALSE,
     pressedSince |-> {}, releasedSince |-> {}]

FrameInit ==
    /\ AppInit
    /\ RendererInit
    /\ InputInit
    /\ camera = Camera2D_new(F32(WindowSize[1], 1), F32(WindowSize[2], 1))
    /\ runner = Resumed
    /\ assets = Absent
    /\ graph = Absent

\* The runner r as an event's handler finds it.
Handling(r, event, key) ==
    [r EXCEPT !.event = event, !.key = key, !.error = "none", !.calls = <<>>,
              !.configured = <<>>, !.began_with = <<>>, !.inside = FALSE]

called(r, name) == [r EXCEPT !.calls = Append(@, name)]

\* RenderState::resize
resize(r, width, height) ==
    IF width > 0 /\ height > 0
    THEN [called(r, "Surface::configure") EXCEPT
              !.config = <<width, height>>,
              !.configured = Append(@, <<width, height>>),
              !.is_surface_configured = TRUE]
    ELSE r

\* The orders in which a query can yield the pairs of the set S.
Orders(S) ==
    {o \in [1 .. Cardinality(S) -> S] : \A p \in S : \E i \in DOMAIN o : o[i] = p}

\* Mutant of sprite_pass: a sprite whose entity has no Transform2D is drawn
\* at the origin.
RECURSIVE sprite_pass_Unplaced(_, _)
sprite_pass_Unplaced(b, order) ==
    IF order = <<>> THEN b
    ELSE LET entity == order[1][1]
             s == sprite(order[1][2])
             t == get("Transform2D", entity)
         IN  sprite_pass_Unplaced(
                 IF t # None
                 THEN draw_sprite(b, transform2d(t).position,
                                  <<s.size[1] * transform2d(t).scale[1],
                                    s.size[2] * transform2d(t).scale[2]>>,
                                  transform2d(t).rotation, s.color, s.uv_rect)
                 ELSE draw_sprite(b, <<0, 0>>, s.size, 0, s.color, s.uv_rect),
                 Tail(order))

\* The loop of RenderState::render over query::<Sprite>(), which yields the
\* pairs of `order`.
RECURSIVE sprite_pass(_, _)
sprite_pass(b, order) ==
    IF order = <<>> THEN b
    ELSE LET entity == order[1][1]
             s == sprite(order[1][2])
             t == get("Transform2D", entity)
         IN  sprite_pass(IF t # None
                         THEN draw_sprite(b, transform2d(t).position,
                                          <<s.size[1] * transform2d(t).scale[1],
                                            s.size[2] * transform2d(t).scale[2]>>,
                                          transform2d(t).rotation, s.color, s.uv_rect)
                         ELSE b,
                         Tail(order))

\* Application::render of an application that draws the quads of `quads`.
RECURSIVE app_render(_, _)
app_render(b, quads) ==
    IF quads = <<>> THEN b
    ELSE app_render(draw_quad(b, quads[1].centre, quads[1].size, quads[1].rotation,
                              quads[1].color),
                    Tail(quads))

\* What RenderState::render leaves: the runner, the renderer and the result.
Rendered(r, rend, result) == [runner |-> r, renderer |-> rend, result |-> result]

\* Mutant of render: Renderer2D::begin is left out.
render_NoBegin(r, texture, order) ==
    LET requested == called(r, "Window::request_redraw")
        acquired == called(requested, "Surface::get_current_texture")
        batch == app_render(sprite_pass(CurrentBatch, order), r.app)
    IN  IF ~r.is_surface_configured THEN Rendered(requested, renderer, "Ok")
        ELSE IF texture # "Ok" THEN Rendered(acquired, renderer, texture)
        ELSE Rendered(
                 called(called(called(called(called(acquired,
                     "sprite pass"), "Application::render"),
                     "Renderer2D::flush_colored"), "Queue::submit"),
                     "SurfaceTexture::present"),
                 Renderer(batch, 0,
                          Call("flush_colored", <<0, 0>>, <<>>, 0, 0, batch.quad_count,
                               0, flush(batch, "pipeline_colored", FALSE))),
                 "Ok")

\* Mutant of render: the redraw is requested after the test of
\* is_surface_configured, so a frame on an unconfigured surface asks for no
\* further frame.
render_RequestAfterGuard(r, texture, order) ==
    LET requested == called(r, "Window::request_redraw")
        acquired == called(requested, "Surface::get_current_texture")
        batch == app_render(sprite_pass(begin(CurrentBatch), order), r.app)
    IN  IF ~r.is_surface_configured THEN Rendered(r, renderer, "Ok")
        ELSE IF texture # "Ok" THEN Rendered(acquired, renderer, texture)
        ELSE Rendered(
                 [called(called(called(called(called(called(acquired,
                     "Renderer2D::begin"), "sprite pass"), "Application::render"),
                     "Renderer2D::flush_colored"), "Queue::submit"),
                     "SurfaceTexture::present")
                  EXCEPT !.began_with = camera.viewport_size],
                 Renderer(batch, 0,
                          Call("flush_colored", <<0, 0>>, <<>>, 0, 0, batch.quad_count,
                               0, flush(batch, "pipeline_colored", FALSE))),
                 "Ok")

\* RenderState::render.  texture is what get_current_texture returns, order
\* the order in which the sprite query yields.
render(r, texture, order) ==
    LET requested == called(r, "Window::request_redraw")
        acquired == called(requested, "Surface::get_current_texture")
        batch == app_render(sprite_pass(begin(CurrentBatch), order), r.app)
    IN  IF ~r.is_surface_configured THEN Rendered(requested, renderer, "Ok")
        ELSE IF texture # "Ok" THEN Rendered(acquired, renderer, texture)
        ELSE Rendered(
                 [called(called(called(called(called(called(acquired,
                     "Renderer2D::begin"), "sprite pass"), "Application::render"),
                     "Renderer2D::flush_colored"), "Queue::submit"),
                     "SurfaceTexture::present")
                  EXCEPT !.began_with = camera.viewport_size],
                 Renderer(batch, 0,
                          Call("flush_colored", <<0, 0>>, <<>>, 0, 0, batch.quad_count,
                               0, flush(batch, "pipeline_colored", FALSE))),
                 "Ok")

\* Mutant of on_render_error: a lost surface ends the loop.
on_render_error_ExitOnLost(r, e) ==
    IF e \in {"Lost", "OutOfMemory"}
    THEN [called(r, "EventLoop::exit") EXCEPT !.error = e, !.exiting = TRUE]
    ELSE [called(r, "log::error") EXCEPT !.error = e]

\* The match on the error of render in the RedrawRequested arm.
on_render_error(r, e) ==
    IF e = "Lost"
    THEN resize([r EXCEPT !.error = e], r.config[1], r.config[2])
    ELSE IF e = "OutOfMemory"
    THEN [called(r, "EventLoop::exit") EXCEPT !.error = e, !.exiting = TRUE]
    ELSE [called(r, "log::error") EXCEPT !.error = e]

\* WindowEvent::CloseRequested
CloseRequested ==
    /\ ~runner.exiting
    /\ runner' = [called(Handling(runner, "CloseRequested", "-"), "EventLoop::exit")
                  EXCEPT !.exiting = TRUE]
    /\ UNCHANGED <<vars, rendererVars, inputVars, cameraVars, offEngine>>

\* WindowEvent::Resized
Resized(size) ==
    /\ ~runner.exiting
    /\ runner' = resize(Handling(runner, "Resized", "-"), size[1], size[2])
    /\ camera' = set_viewport(camera, F32(size[1], 1), F32(size[2], 1))
    /\ UNCHANGED <<vars, rendererVars, inputVars, offEngine>>

\* WindowEvent::RedrawRequested
RedrawRequested(texture, order) ==
    /\ ~runner.exiting
    /\ LET began == begin_frame(input)
           updated == [called(called(called(Handling(runner, "RedrawRequested", "-"),
                           "Input::begin_frame"), "Time::update"), "Application::update")
                       EXCEPT !.seen = [pressed |-> began.keys_pressed,
                                        released |-> began.keys_released],
                              !.pressedSince = {},
                              !.releasedSince = {}]
           out == render(updated, texture, order)
       IN  /\ input' = began
           /\ renderer' = out.renderer
           /\ runner' = IF out.result = "Ok" THEN out.runner
                        ELSE on_render_error(out.runner, out.result)
    /\ UNCHANGED <<vars, cameraVars, offEngine>>

\* WindowEvent::KeyboardInput
KeyboardInput(code, is_pressed) ==
    /\ ~runner.exiting
    /\ IF is_pressed
       THEN /\ input' = on_key_pressed(input, code)
            /\ LET r == [called(called(Handling(runner, "KeyPressed", code),
                             "Input::on_key_pressed"), "Application::on_key_pressed")
                         EXCEPT !.inside = code \in on_key_pressed(input, code).keys_down,
                                !.pressedSince =
                                    IF code \in keys_down THEN @ ELSE @ \cup {code}]
               IN  runner' = IF code = "Escape"
                             THEN [called(r, "EventLoop::exit") EXCEPT !.exiting = TRUE]
                             ELSE r
       ELSE /\ input' = on_key_released(input, code)
            /\ runner' = [called(called(Handling(runner, "KeyReleased", code),
                              "Input::on_key_released"), "Application::on_key_released")
                          EXCEPT !.inside = code \in on_key_released(input, code).keys_down,
                                 !.releasedSince =
                                     IF code \in keys_down THEN @ \cup {code} ELSE @]
    /\ UNCHANGED <<vars, rendererVars, cameraVars, offEngine>>

\* WindowEvent::MouseInput
MouseInput(button, is_pressed) ==
    /\ ~runner.exiting
    /\ IF button \notin {"Left", "Right", "Middle"}
       THEN /\ runner' = Handling(runner, "MouseInput", "-")
            /\ input' = input
       ELSE IF is_pressed
       THEN /\ runner' = called(Handling(runner, "MouseInput", "-"),
                                "Input::on_mouse_button_pressed")
            /\ input' = on_mouse_button_pressed(input, button)
       ELSE /\ runner' = called(Handling(runner, "MouseInput", "-"),
                                "Input::on_mouse_button_released")
            /\ input' = on_mouse_button_released(input, button)
    /\ UNCHANGED <<vars, rendererVars, cameraVars, offEngine>>

\* WindowEvent::CursorMoved
CursorMoved(x, y) ==
    /\ ~runner.exiting
    /\ runner' = called(Handling(runner, "CursorMoved", "-"), "Input::on_mouse_moved")
    /\ input' = on_mouse_moved(input, x, y)
    /\ UNCHANGED <<vars, rendererVars, cameraVars, offEngine>>

\* WindowEvent::MouseWheel
MouseWheel(x, y) ==
    /\ ~runner.exiting
    /\ runner' = called(Handling(runner, "MouseWheel", "-"), "Input::on_scroll")
    /\ input' = on_scroll(input, x, y)
    /\ UNCHANGED <<vars, rendererVars, cameraVars, offEngine>>

FrameNext ==
    \/ CloseRequested
    \/ \E size \in ResizedTo : Resized(size)
    \/ \E texture \in SurfaceResults, order \in Orders(query("Sprite")) :
           RedrawRequested(texture, order)
    \/ \E code \in KeyCodes, is_pressed \in BOOLEAN : KeyboardInput(code, is_pressed)
    \/ \E button \in WinitButtons, is_pressed \in BOOLEAN : MouseInput(button, is_pressed)
    \/ \E p \in CursorPoints : CursorMoved(p[1], p[2])
    \/ \E d \in WheelDeltas : MouseWheel(d[1], d[2])

\* The calls of a handler that are steps of a frame or callbacks for events.
IsTracked(name) ==
    name \in {"Input::begin_frame", "Time::update", "Application::update",
              "Renderer2D::begin", "sprite pass", "Application::render",
              "Renderer2D::flush_colored", "Renderer2D::flush_textured",
              "Input::on_key_pressed", "Input::on_key_released",
              "Input::on_mouse_button_pressed", "Input::on_mouse_button_released",
              "Input::on_mouse_moved", "Input::on_scroll",
              "Application::on_key_pressed", "Application::on_key_released"}

\* The handler's calls include name.
Made(r, name) == \E i \in DOMAIN r.calls : r.calls[i] = name

\* C23: Application::update sees key_pressed(k) true in the one update that
\* follows an up-to-down transition of k and in no other update; likewise
\* key_released(k) and the down-to-up transitions.
C23_EdgeSeenInOneUpdate ==
    [][ runner'.event = "RedrawRequested" =>
          /\ runner'.seen.pressed = runner.pressedSince
          /\ runner'.seen.released = runner.releasedSince ]_allVars

\* C25: a RedrawRequested that renders (the surface is configured and a
\* texture is acquired) makes, of the frame's steps and the event callbacks,
\* exactly these calls in this order: Input::begin_frame, Time::update,
\* Application::update, Renderer2D::begin, the sprite pass,
\* Application::render, flush_colored; begin is given the camera as it is,
\* the batch flushed holds the sprite pass's quads and is drawn by at most
\* one draw call.
C25_FrameOrder ==
    [][ (runner'.event = "RedrawRequested" /\ runner.is_surface_configured
            /\ runner'.error = "none") =>
          /\ SelectSeq(runner'.calls, IsTracked) =
                <<"Input::begin_frame", "Time::update", "Application::update",
                  "Renderer2D::begin", "sprite pass", "Application::render",
                  "Renderer2D::flush_colored">>
          /\ runner'.began_with = camera'.viewport_size
          /\ input' = begin_frame(input)
          /\ lastCall'.op = "flush_colored"
          /\ Len(vertices') = 4 * quad_count'
          /\ quad_count' = Cardinality({p \in query("Sprite") :
                                           get("Transform2D", p[1]) # None})
          /\ Cardinality({i \in DOMAIN lastCall'.gpu :
                             lastCall'.gpu[i].cmd = "draw_indexed"}) <= 1 ]_allVars

\* Witness of C25: a frame has been rendered after a resize, with a key held
\* and the sprite of the one entity in the batch.
C25_Witness ==
    /\ runner.event = "RedrawRequested"
    /\ Made(runner, "SurfaceTexture::present")
    /\ runner.began_with = <<F32(800, 1), F32(600, 1)>>
    /\ keys_down # {}
    /\ quad_count = 1
    /\ lastCall.gpu # <<>>

\* C26: a press event invokes Application::on_key_pressed exactly when Input
\* records the key as up, a release event Application::on_key_released
\* exactly when Input records it as down; the callback runs after the Input
\* method, and inside it key_down(k) is what the event has made it.
C26_CallbackOncePerTransition ==
    [][ /\ runner'.event = "KeyPressed" =>
              /\ Made(runner', "Application::on_key_pressed") <=> ~key_down(runner'.key)
              /\ Made(runner', "Application::on_key_pressed") =>
                    (runner'.calls[1] = "Input::on_key_pressed" /\ runner'.inside)
        /\ runner'.event = "KeyReleased" =>
              /\ Made(runner', "Application::on_key_released") <=> key_down(runner'.key)
              /\ Made(runner', "Application::on_key_released") =>
                    (runner'.calls[1] = "Input::on_key_released" /\ ~runner'.inside)
      ]_allVars

\* How many of the handler's calls are calls of name.
Times(r, name) == Cardinality({i \in DOMAIN r.calls : r.calls[i] = name})

\* C32: every RedrawRequested runs Input::begin_frame, Time::update and
\* Application::update first and requests a redraw once; it calls
\* Renderer2D::begin as often as flush_colored, at most once, and never
\* flush_textured.  On a surface that is not configured, or when no surface
\* texture is acquired, it makes no begin, draw or flush call and leaves the
\* renderer as it was; otherwise it makes each of them once.
C32_BeginIffFlush ==
    [][ runner'.event = "RedrawRequested" =>
          /\ Times(runner', "Window::request_redraw") = 1
          /\ Times(runner', "Application::update") = 1
          /\ SubSeq(runner'.calls, 1, 4) =
                <<"Input::begin_frame", "Time::update", "Application::update",
                  "Window::request_redraw">>
          /\ Times(runner', "Renderer2D::begin") = Times(runner', "Renderer2D::flush_colored")
          /\ Times(runner', "Renderer2D::begin") <= 1
          /\ Times(runner', "Renderer2D::flush_textured") = 0
          /\ IF runner.is_surface_configured /\ runner'.error = "none"
             THEN /\ Times(runner', "Renderer2D::begin") = 1
                  /\ Times(runner', "sprite pass") = 1
                  /\ Times(runner', "Application::render") = 1
                  /\ lastCall'.op = "flush_colored"
             ELSE /\ ~Made(runner', "Renderer2D::begin")
                  /\ ~Made(runner', "sprite pass")
                  /\ ~Made(runner', "Application::render")
                  /\ ~Made(runner', "SurfaceTexture::present")
                  /\ renderer' = renderer
                  /\ Made(runner', "Surface::get_current_texture")
                        <=> runner.is_surface_configured ]_allVars

\* Witness of C32: a frame has run on a surface that was never configured,
\* with a key held: it updated the application, requested a redraw and made
\* no call of the renderer.
C32_Witness ==
    /\ runner.event = "RedrawRequested"
    /\ ~runner.is_surface_configured
    /\ runner.calls = <<"Input::begin_frame", "Time::update", "Application::update",
                        "Window::request_redraw">>
    /\ keys_down # {}
    /\ lastCall.op # "flush_colored"

\* C27: when RenderState::render fails, a lost surface is configured again,
\* once, with the width and height the configuration holds, and the loop goes
\* on; out of memory asks the loop to exit; any other error is logged and
\* the loop goes on.  The World, the renderer and the camera are as before
\* the event and the Input is as the frame's begin_frame left it.
C27_RenderErrors ==
    [][ (runner'.event = "RedrawRequested" /\ runner'.error # "none") =>
          /\ runner'.error = "Lost" =>
                /\ runner'.configured = <<runner.config>>
                /\ runner'.config = runner.config
                /\ runner'.is_surface_configured
                /\ ~runner'.exiting
          /\ runner'.error = "OutOfMemory" =>
                /\ runner'.exiting
                /\ runner'.configured = <<>>
          /\ runner'.error \notin {"Lost", "OutOfMemory"} =>
                /\ Made(runner', "log::error")
                /\ ~runner'.exiting
                /\ runner'.configured = <<>>
          /\ ~Made(runner', "Renderer2D::begin")
          /\ UNCHANGED <<next_entity_id, entities, dead_entities, components>>
          /\ UNCHANGED <<renderer, camera>>
          /\ input' = begin_frame(input) ]_allVars

\* Witness of C27: the surface was lost after a frame had been rendered at
\* 800 x 600, and it has been configured at that size again; the batch of
\* the frame before is still held.
C27_Witness ==
    /\ runner.event = "RedrawRequested"
    /\ runner.error = "Lost"
    /\ runner.configured = << <<800, 600>> >>
    /\ ~runner.exiting
    /\ quad_count = 1
    /\ keys_down # {}

----------------------------------------------------------------------------
\* The sprite pass over a scene.  The application's init spawns two entities
\* and gives each a Transform2D, a Sprite, both or neither; its render draws
\* the quads of a HUD, or is the trait's default.

RED == [rgb |-> "red", a |-> 100]
Hud == << [centre |-> <<0, 0>>, size |-> <<20, 20>>, rotation |-> 0, color |-> RED] >>

\* The adds of an init that gives entity e the component scene[T][e] of each
\* type T (None: no add), entity by entity, the Transform2D first.
SceneAdds(scene) ==
    SelectSeq(<< <<0, "Transform2D", scene["Transform2D"][0]>>,
                 <<0, "Sprite", scene["Sprite"][0]>>,
                 <<1, "Transform2D", scene["Transform2D"][1]>>,
                 <<1, "Sprite", scene["Sprite"][1]>> >>,
              LAMBDA a : a[3] # None)

SceneStorage(scene, T) ==
    LET first == IF scene[T][0] = None THEN Storage_new(T)
                 ELSE Storage_insert(Storage_new(T), 0, scene[T][0])
    IN  IF scene[T][1] = None THEN first ELSE Storage_insert(first, 1, scene[T][1])

\* The World after an init that builds `scene`.
SceneInit(scene) ==
    LET adds == SceneAdds(scene)
        added == {adds[i][2] : i \in DOMAIN adds}
    IN  /\ next_entity_id = 2
        /\ entities = <<0, 1>>
        /\ dead_entities = <<>>
        /\ components = [T \in added |-> SceneStorage(scene, T)]
        /\ addCalled = added
        /\ lastOp = IF adds = <<>> THEN Op("spawn", 1, NoType, NoValue, FALSE, 0)
                    ELSE Op("add", adds[Len(adds)][1], adds[Len(adds)][2],
                            adds[Len(adds)][3], FALSE, 0)

SpriteInit ==
    /\ \E scene \in [ComponentTypes -> [{0, 1} -> Values \cup {None}]] : SceneInit(scene)
    /\ RendererInit
    /\ InputInit
    /\ camera = Camera2D_new(F32(WindowSize[1], 1), F32(WindowSize[2], 1))
    /\ \E app \in {<<>>, Hud} : runner = [Resumed EXCEPT !.app = app]
    /\ assets = Absent
    /\ graph = Absent

SpriteNext ==
    \/ \E size \in ResizedTo : Resized(size)
    \/ \E texture \in SurfaceResults, order \in Orders(query("Sprite")) :
           RedrawRequested(texture, order)

\* The colour of each quad of the vertex list v, in the order of the batch.
QuadColours(v) == [k \in 1 .. (Len(v) \div 4) |-> v[4 * k - 3].color]

\* The quad draw_sprite pushes for the Sprite pair p = <<entity, sprite>> of
\* an entity that has a Transform2D.
SpriteQuad(p) ==
    LET s == sprite(p[2])
        t == transform2d(get("Transform2D", p[1]))
    IN  quad_vertices(t.position, <<s.size[1] * t.scale[1], s.size[2] * t.scale[2]>>,
                      t.rotation, s.color, sprite_uvs(s.uv_rect))

C35_CameraMatchesSurface ==
    camera.viewport_size = <<F32(runner.config[1], 1), F32(runner.config[2], 1)>>

(***************************************************************************)
(* The asset manager (src/src/assets/mod.rs).  A path is a name, the file  *)
(* system is outside the program: what std::fs::read returns for a path is *)
(* chosen anew at every read.  A handle is its u32.                        *)
(***************************************************************************)

\* The handles the model lets load create: next_handle stays below 2^32 in
\* any run that can be carried out, and a load that needs a fresh handle is
\* taken only while next_handle < MaxHandles.
MaxHandles == 3

AssetPaths == {"a.png", "b.png"}

\* What std::fs::read returns: the bytes of the file, or an error.
ReadResults == {"bytes1", "bytes2", "Err"}

NoHandle == 0 - 1
NoPath == "-"

HashMap_insert(m, k, v) == [x \in (DOMAIN m) \cup {k} |-> IF x = k THEN v ELSE m[x]]
HashMap_remove(m, k) == [x \in (DOMAIN m) \ {k} |-> m[x]]

AssetCall(op, path, handle, ret, read) ==
    [op |-> op, path |-> path, handle |-> handle, ret |-> ret, read |-> read]

\* AssetManager::new
AssetManager_new ==
    [next_handle |-> 0, paths |-> <<>>, states |-> <<>>, bytes |-> <<>>,
     issued |-> <<>>, lastAsset |-> AssetCall("new", NoPath, NoHandle, NoHandle, FALSE)]

AssetInit == assets = AssetManager_new

\* Mutant of load: a registered asset that has Failed is read again.
load_RetryFailed(a, path, found, result) ==
    IF found # NoHandle
    THEN IF a.states[found] = "Failed"
         THEN [a EXCEPT !.bytes = IF result = "Err" THEN @
                                  ELSE HashMap_insert(@, found, result),
                        !.states = HashMap_insert(@, found,
                                       IF result = "Err" THEN "Failed" ELSE "Loaded"),
                        !.lastAsset = AssetCall("load", path, NoHandle, found, TRUE)]
         ELSE [a EXCEPT !.lastAsset = AssetCall("load", path, NoHandle, found, FALSE)]
    ELSE LET handle == a.next_handle
         IN  [a EXCEPT !.next_handle = @ + 1,
                       !.paths = HashMap_insert(@, handle, path),
                       !.states = HashMap_insert(@, handle,
                                      IF result = "Err" THEN "Failed" ELSE "Loaded"),
                       !.bytes = IF result = "Err" THEN @
                                 ELSE HashMap_insert(@, handle, result),
                       !.issued = HashMap_insert(@, handle, path),
                       !.lastAsset = AssetCall("load", path, NoHandle, handle, TRUE)]

\* AssetManager::load.  found is the handle at which the loop over paths
\* finds the path, NoHandle if it finds none; result is what std::fs::read
\* returns if it is called.  The state Loading is replaced before load
\* returns.
load(a, path, found, result) ==
    IF found # NoHandle
    THEN [a EXCEPT !.lastAsset = AssetCall("load", path, NoHandle, found, FALSE)]
    ELSE LET handle == a.next_handle
         IN  [a EXCEPT !.next_handle = @ + 1,
                       !.paths = HashMap_insert(@, handle, path),
                       !.states = HashMap_insert(@, handle,
                                      IF result = "Err" THEN "Failed" ELSE "Loaded"),
                       !.bytes = IF result = "Err" THEN @
                                 ELSE HashMap_insert(@, handle, result),
                       !.issued = HashMap_insert(@, handle, path),
                       !.lastAsset = AssetCall("load", path, NoHandle, handle, TRUE)]

\* The handles under which path is registered.
Registered(a, path) == {h \in DOMAIN a.paths : a.paths[h] = path}

Load(path, result) ==
    /\ IF Registered(assets, path) # {}
       THEN \E found \in Registered(assets, path) :
                assets' = load(assets, path, found, result)
       ELSE /\ assets.next_handle < MaxHandles
            /\ assets' = load(assets, path, NoHandle, result)
    /\ UNCHANGED notAssets

\* AssetManager::unload
unload(a, handle) ==
    [a EXCEPT !.paths = HashMap_remove(@, handle),
              !.states = HashMap_remove(@, handle),
              !.bytes = HashMap_remove(@, handle),
              !.lastAsset = AssetCall("unload", NoPath, handle, NoHandle, FALSE)]

Unload(handle) ==
    /\ assets' = unload(assets, handle)
    /\ UNCHANGED notAssets

\* AssetManager::clear
clear(a) ==
    [a EXCEPT !.paths = <<>>, !.states = <<>>, !.bytes = <<>>,
              !.lastAsset = AssetCall("clear", NoPath, NoHandle, NoHandle, FALSE)]

Clear ==
    /\ assets' = clear(assets)
    /\ UNCHANGED notAssets

AssetNext ==
    \/ \E path \in AssetPaths, result \in ReadResults : Load(path, result)
    \/ \E handle \in 0 .. MaxHandles : Unload(handle)
    \/ Clear

\* C36: load of a path that is registered returns the handle it is
\* registered under, reads no file and leaves paths, states (a Failed asset
\* stays Failed), bytes and next_handle as they are; load of a path that is
\* not registered, as after unload or clear, reads the file and returns a
\* handle that no load has created before, under which the path is then
\* registered as Loaded or Failed.  No path is registered under two handles.
C36_LoadIsCached ==
    [][ /\ \A p \in AssetPaths : Cardinality(Registered(assets, p)) <= 1
        /\ DOMAIN assets.states = DOMAIN assets.paths
        /\ lastAsset'.op = "load" =>
              LET path == lastAsset'.path
                  ret == lastAsset'.ret
              IN  IF Registered(assets, path) # {}
                  THEN /\ ret \in Registered(assets, path)
                       /\ ~lastAsset'.read
                       /\ assets'.paths = assets.paths
                       /\ assets'.states = assets.states
                       /\ assets'.bytes = assets.bytes
                       /\ assets'.next_handle = assets.next_handle
                       /\ assets'.issued = assets.issued
                  ELSE /\ ret \notin DOMAIN assets.issued
                       /\ ret \notin DOMAIN assets.paths
                       /\ lastAsset'.read
                       /\ Registered(assets', path) = {ret}
                       /\ assets'.states[ret] \in {"Loaded", "Failed"}
                       /\ (ret \in DOMAIN assets'.bytes) <=> assets'.states[ret] = "Loaded"
                       /\ \A h \in DOMAIN assets.paths :
                              /\ assets'.paths[h] = assets.paths[h]
                              /\ assets'.states[h] = assets.states[h]
      ]_allVars

\* Witness of C36: a.png was loaded as handle 0 and unloaded or cleared,
\* loaded again as handle 1 and found Failed, and the load after that has
\* returned handle 1 without reading, the asset still Failed.
C36_Witness ==
    /\ lastAsset = AssetCall("load", "a.png", NoHandle, 1, FALSE)
    /\ DOMAIN assets.issued = {0, 1}
    /\ assets.issued[0] = "a.png"
    /\ assets.issued[1] = "a.png"
    /\ assets.states[1] = "Failed"
    /\ 0 \notin DOMAIN assets.paths

(***************************************************************************)
(* The scene graph (src/src/scene/mod.rs).  A node is its parent           *)
(* (NoEntity for None) and its children list; local_position plays no part *)
(* in the hierarchy.  An Entity's field is public, so every method can be  *)
(* called with any entity, a node of the graph or not.                     *)
(***************************************************************************)

SceneEntities == {0, 1, 2}

\* The length to which roots and a children list may grow: add_root and
\* set_parent are taken only while the list they push to is shorter.
MaxListLen == 2

\* The calls of remove (the first and the recursive ones) that one remove is
\* followed for; a remove that would make more has not ended by then.
MaxCalls == 8 * MaxListLen

\* Vec::retain(|&e| e != entity)
retain(vec, entity) == SelectSeq(vec, LAMBDA e : e # entity)

\* SceneNode::new
SceneNode_new == [parent |-> NoEntity, children |-> <<>>]

SceneCall(op, entity, parent, calls, finished, cyclic) ==
    [op |-> op, entity |-> entity, parent |-> parent, calls |-> calls,
     finished |-> finished, cyclic |-> cyclic]

\* SceneGraph::new
SceneGraph_new ==
    [nodes |-> <<>>, roots |-> <<>>,
     lastScene |-> SceneCall("new", NoEntity, NoEntity, 0, TRUE, FALSE)]

GraphInit == graph = SceneGraph_new

\* SceneGraph::add_root
add_root(g, entity) ==
    [g EXCEPT !.nodes = HashMap_insert(@, entity, SceneNode_new),
              !.roots = Append(@, entity)]

\* SceneGraph::set_parent: take the child off its old parent's list or off
\* roots, push it to the new parent's list, set its parent.
set_parent(g, child, parent) ==
    LET detached ==
            IF child \notin DOMAIN g.nodes THEN g
            ELSE IF g.nodes[child].parent # NoEntity
            THEN IF g.nodes[child].parent \in DOMAIN g.nodes
                 THEN [g EXCEPT !.nodes[g.nodes[child].parent].children =
                                     retain(@, child)]
                 ELSE g
            ELSE [g EXCEPT !.roots = retain(@, child)]
        attached ==
            IF parent \in DOMAIN detached.nodes
            THEN [detached EXCEPT !.nodes[parent].children = Append(@, child)]
            ELSE detached
    IN  IF child \in DOMAIN attached.nodes
        THEN [attached EXCEPT !.nodes[child].parent = parent]
        ELSE attached

\* A remove in progress: the graph, the calls of remove made so far, and
\* whether every call made has returned.
Removing(g, calls, finished) == [graph |-> g, calls |-> calls, finished |-> finished]

\* Mutant of remove: the node is looked up, and taken out of the map only
\* after its children have been removed.
RECURSIVE remove_NodeLast(_, _)
RECURSIVE remove_children_NodeLast(_, _)
remove_NodeLast(r, entity) ==
    IF r.calls >= MaxCalls THEN [r EXCEPT !.finished = FALSE]
    ELSE IF entity \notin DOMAIN r.graph.nodes THEN [r EXCEPT !.calls = @ + 1]
    ELSE LET node == r.graph.nodes[entity]
             g == r.graph
             unlisted ==
                 IF node.parent # NoEntity
                 THEN IF node.parent \in DOMAIN g.nodes
                      THEN [g EXCEPT !.nodes[node.parent].children = retain(@, entity)]
                      ELSE g
                 ELSE [g EXCEPT !.roots = retain(@, entity)]
             done == remove_children_NodeLast(Removing(unlisted, r.calls + 1, r.finished),
                                              node.children)
         IN  [done EXCEPT !.graph.nodes = HashMap_remove(@, entity)]

remove_children_NodeLast(r, children) ==
    IF children = <<>> \/ ~r.finished THEN r
    ELSE remove_children_NodeLast(remove_NodeLast(r, children[1]), Tail(children))

\* SceneGraph::remove: nodes.remove(&entity), then the parent's list or
\* roots, then `for child in node.children { self.remove(child) }`.
RECURSIVE remove(_, _)
RECURSIVE remove_children(_, _)
remove(r, entity) ==
    IF r.calls >= MaxCalls THEN [r EXCEPT !.finished = FALSE]
    ELSE IF entity \notin DOMAIN r.graph.nodes THEN [r EXCEPT !.calls = @ + 1]
    ELSE LET node == r.graph.nodes[entity]
             g == [r.graph EXCEPT !.nodes = HashMap_remove(@, entity)]
             unlisted ==
                 IF node.parent # NoEntity
                 THEN IF node.parent \in DOMAIN g.nodes
                      THEN [g EXCEPT !.nodes[node.parent].children = retain(@, entity)]
                      ELSE g
                 ELSE [g EXCEPT !.roots = retain(@, entity)]
         IN  remove_children(Removing(unlisted, r.calls + 1, r.finished), node.children)

remove_children(r, children) ==
    IF children = <<>> \/ ~r.finished THEN r
    ELSE remove_children(remove(r, children[1]), Tail(children))

\* The entities of the sequence vec.
Members(vec) == {vec[i] : i \in DOMAIN vec}

\* The nodes that can be reached from the nodes of S through children lists.
RECURSIVE Reach(_, _)
Reach(g, S) ==
    LET next == S \cup {c \in DOMAIN g.nodes :
                           \E p \in S : c \in Members(g.nodes[p].children)}
    IN  IF next = S THEN S ELSE Reach(g, next)

\* The descendants of the node entity: the nodes reached from its children.
Descendants(g, entity) ==
    Reach(g, {c \in DOMAIN g.nodes : c \in Members(g.nodes[entity].children)})

\* Every list of the graph g is within the length followed.
WithinLists(g) ==
    /\ Len(g.roots) <= MaxListLen
    /\ \A e \in DOMAIN g.nodes : Len(g.nodes[e].children) <= MaxListLen

AddRoot(entity) ==
    /\ WithinLists(add_root(graph, entity))
    /\ graph' = [add_root(graph, entity) EXCEPT
                     !.lastScene = SceneCall("add_root", entity, NoEntity, 0, TRUE, FALSE)]
    /\ UNCHANGED notGraph

SetParent(child, parent) ==
    /\ WithinLists(set_parent(graph, child, parent))
    /\ graph' = [set_parent(graph, child, parent) EXCEPT
                     !.lastScene = SceneCall("set_parent", child, parent, 0, TRUE, FALSE)]
    /\ UNCHANGED notGraph

SceneRemove(entity) ==
    LET done == remove(Removing(graph, 0, TRUE), entity)
    IN  /\ graph' = [done.graph EXCEPT
                         !.lastScene =
                             SceneCall("remove", entity, NoEntity, done.calls,
                                       done.finished,
                                       /\ entity \in DOMAIN graph.nodes
                                       /\ entity \in Descendants(graph, entity))]
        /\ UNCHANGED notGraph

GraphNext ==
    \/ \E entity \in SceneEntities : AddRoot(entity)
    \/ \E child \in SceneEntities, parent \in SceneEntities : SetParent(child, parent)
    \/ \E entity \in SceneEntities : SceneRemove(entity)

\* The entries of the children lists of the nodes of S: <<p, i>> for the i-th
\* child of p.
Entries(g, S) == UNION {{p} \X DOMAIN g.nodes[p].children : p \in S}

\* How often entity occurs in vec.
Occurrences(vec, entity) == Cardinality({i \in DOMAIN vec : vec[i] = entity})

\* C37: remove(entity) returns, after at most one call of remove for the
\* entity and one for each entry of a children list; for a node it leaves
\* as nodes exactly those that are neither the entity nor reached from it
\* through children lists, and the entity is no longer in its parent's
\* children list (if it had a parent that is still a node) or in roots (if
\* it had none); for an entity that is no node it changes nothing.  This
\* holds as well where set_parent has made a cycle or a node its own parent.
C37_RemoveSubtree ==
    [][ lastScene'.op = "remove" =>
          LET entity == lastScene'.entity
          IN  /\ lastScene'.finished
              /\ IF entity \notin DOMAIN graph.nodes
                 THEN /\ graph'.nodes = graph.nodes
                      /\ graph'.roots = graph.roots
                      /\ lastScene'.calls = 1
                 ELSE LET node == graph.nodes[entity]
                          gone == {entity} \cup Descendants(graph, entity)
                      IN  /\ DOMAIN graph'.nodes = (DOMAIN graph.nodes) \ gone
                          /\ lastScene'.calls <= 1 + Cardinality(Entries(graph, gone))
                          /\ IF node.parent = NoEntity
                             THEN entity \notin Members(graph'.roots)
                             ELSE node.parent \in DOMAIN graph'.nodes =>
                                     entity \notin
                                         Members(graph'.nodes[node.parent].children)
                          /\ \A e \in DOMAIN graph'.nodes :
                                /\ graph'.nodes[e].parent = graph.nodes[e].parent
                                /\ Members(graph'.nodes[e].children)
                                      \subseteq Members(graph.nodes[e].children)
      ]_allVars

\* Witness of C37: remove has ended on a node that was its own descendant (a
\* cycle of set_parent), after more than one call, and has emptied the graph.
C37_Witness ==
    /\ lastScene.op = "remove"
    /\ lastScene.cyclic
    /\ lastScene.finished
    /\ lastScene.calls >= 3
    /\ DOMAIN graph.nodes = {}

\* C38: every node is listed exactly once in roots and all children lists
\* together: in roots if its parent is None, otherwise in the children list
\* of its parent, which is a node; an entity that is no node is in no list.
C38_ListedOnce ==
    LET listed(e) ==
            Occurrences(graph.roots, e)
            + Cardinality({c \in Entries(graph, DOMAIN graph.nodes) :
                              graph.nodes[c[1]].children[c[2]] = e})
    IN  /\ \A e \in DOMAIN graph.nodes :
               /\ listed(e) = 1
               /\ IF graph.nodes[e].parent = NoEntity
                  THEN e \in Members(graph.roots)
                  ELSE /\ graph.nodes[e].parent \in DOMAIN graph.nodes
                       /\ e \in Members(graph.nodes[graph.nodes[e].parent].children)
        /\ \A e \in SceneEntities \ DOMAIN graph.nodes : listed(e) = 0

----------------------------------------------------------------------------
\* Specifications: one per object.  A specification constructs the object
\* whose methods it calls; the World is four empty fields where it is not
\* used, and an Input or a Renderer2D that is not used is not constructed.

NoEngine == camera = Absent /\ runner = Absent /\ assets = Absent /\ graph = Absent

WorldAlone == WorldInit /\ renderer = Absent /\ input = Absent /\ NoEngine
RendererAlone == WorldInit /\ RendererInit /\ input = Absent /\ NoEngine
InputAlone == WorldInit /\ renderer = Absent /\ InputInit /\ NoEngine

WorldSpec == WorldAlone /\ [][WorldNext]_allVars

BatchSpec == RendererAlone /\ [][BatchNext]_allVars

GlyphSpec == RendererAlone /\ [][GlyphNext]_allVars

InputSpec == InputAlone /\ [][InputNext]_allVars

MovementAlone == WorldInit /\ renderer = Absent /\ MovementInit /\ NoEngine

CameraAlone ==
    /\ WorldInit /\ renderer = Absent /\ input = Absent /\ CameraInit
    /\ runner = Absent /\ assets = Absent /\ graph = Absent

CameraSpec == CameraAlone /\ [][CameraNext]_allVars

FrameSpec == FrameInit /\ [][FrameNext]_allVars

MovementSpec == MovementAlone /\ [][MovementNext]_allVars

SpriteSpec == SpriteInit /\ [][SpriteNext]_allVars

AssetAlone ==
    /\ WorldInit /\ renderer = Absent /\ input = Absent /\ camera = Absent
    /\ runner = Absent /\ AssetInit /\ graph = Absent

AssetSpec == AssetAlone /\ [][AssetNext]_allVars

GraphAlone ==
    /\ WorldInit /\ renderer = Absent /\ input = Absent /\ camera = Absent
    /\ runner = Absent /\ assets = Absent /\ GraphInit

GraphSpec == GraphAlone /\ [][GraphNext]_allVars

====
